---- MODULE Spec2Model ----
(***************************************************************************)
(* SecureFlow's native encryption core.                                    *)
(*                                                                         *)
(*   core/SimpleAES.cpp      the cipher class: key schedule, block         *)
(*                           transform, CBC chaining, PKCS7 padding and    *)
(*                           the base64 text codec                         *)
(*   native_ffi_bridge.cpp   the process-wide cipher of the FFI bridge     *)
(*                           and its key derivation                        *)
(*                                                                         *)
(* Representation.  A byte is a number in 0..255.  A std::vector<uint8_t>  *)
(* or std::string is a sequence of bytes or character codes; v[i] of the   *)
(* source is At(v, i).  The 16-byte state of a block is a sequence of 16   *)
(* bytes.  A uint32_t round-key word is the sequence of its four bytes,    *)
(* most significant first: byte j is (w >> (24 - j*8)) & 0xff.             *)
(***************************************************************************)
EXTENDS Integers, Sequences, FiniteSets, TLC

Byte == 0..255

(* ---------------- bit operations on uint8_t ---------------- *)

RECURSIVE XorBits(_, _, _)
XorBits(a, b, n) ==
    IF n = 0 THEN 0
    ELSE (((a % 2) + (b % 2)) % 2) + 2 * XorBits(a \div 2, b \div 2, n - 1)

XorNibble == [a \in 0..15 |-> [b \in 0..15 |-> XorBits(a, b, 4)]]

\* a ^ b on two bytes
Xor(a, b) == 16 * XorNibble[a \div 16][b \div 16] + XorNibble[a % 16][b % 16]

(* ---------------- the constant tables ---------------- *)

sboxTable ==
<<
     99, 124, 119, 123, 242, 107, 111, 197,  48,   1, 103,  43, 254, 215, 171, 118,
    202, 130, 201, 125, 250,  89,  71, 240, 173, 212, 162, 175, 156, 164, 114, 192,
    183, 253, 147,  38,  54,  63, 247, 204,  52, 165, 229, 241, 113, 216,  49,  21,
      4, 199,  35, 195,  24, 150,   5, 154,   7,  18, 128, 226, 235,  39, 178, 117,
      9, 131,  44,  26,  27, 110,  90, 160,  82,  59, 214, 179,  41, 227,  47, 132,
     83, 209,   0, 237,  32, 252, 177,  91, 106, 203, 190,  57,  74,  76,  88, 207,
    208, 239, 170, 251,  67,  77,  51, 133,  69, 249,   2, 127,  80,  60, 159, 168,
     81, 163,  64, 143, 146, 157,  56, 245, 188, 182, 218,  33,  16, 255, 243, 210,
    205,  12,  19, 236,  95, 151,  68,  23, 196, 167, 126,  61, 100,  93,  25, 115,
     96, 129,  79, 220,  34,  42, 144, 136,  70, 238, 184,  20, 222,  94,  11, 219,
    224,  50,  58,  10,  73,   6,  36,  92, 194, 211, 172,  98, 145, 149, 228, 121,
    231, 200,  55, 109, 141, 213,  78, 169, 108,  86, 244, 234, 101, 122, 174,   8,
    186, 120,  37,  46,  28, 166, 180, 198, 232, 221, 116,  31,  75, 189, 139, 138,
    112,  62, 181, 102,  72,   3, 246,  14,  97,  53,  87, 185, 134, 193,  29, 158,
    225, 248, 152,  17, 105, 217, 142, 148, 155,  30, 135, 233, 206,  85,  40, 223,
    140, 161, 137,  13, 191, 230,  66, 104,  65, 153,  45,  15, 176,  84, 187,  22 >>

inv_sboxTable ==
<<
     82,   9, 106, 213,  48,  54, 165,  56, 191,  64, 163, 158, 129, 243, 215, 251,
    124, 227,  57, 130, 155,  47, 255, 135,  52, 142,  67,  68, 196, 222, 233, 203,
     84, 123, 148,  50, 166, 194,  35,  61, 238,  76, 149,  11,  66, 250, 195,  78,
      8,  46, 161, 102,  40, 217,  36, 178, 118,  91, 162,  73, 109, 139, 209,  37,
    114, 248, 246, 100, 134, 104, 152,  22, 212, 164,  92, 204,  93, 101, 182, 146,
    108, 112,  72,  80, 253, 237, 185, 218,  94,  21,  70,  87, 167, 141, 157, 132,
    144, 216, 171,   0, 140, 188, 211,  10, 247, 228,  88,   5, 184, 179,  69,   6,
    208,  44,  30, 143, 202,  63,  15,   2, 193, 175, 189,   3,   1,  19, 138, 107,
     58, 145,  17,  65,  79, 103, 220, 234, 151, 242, 207, 206, 240, 180, 230, 115,
    150, 172, 116,  34, 231, 173,  53, 133, 226, 249,  55, 232,  28, 117, 223, 110,
     71, 241,  26, 113,  29,  41, 197, 137, 111, 183,  98,  14, 170,  24, 190,  27,
    252,  86,  62,  75, 198, 210, 121,  32, 154, 219, 192, 254, 120, 205,  90, 244,
     31, 221, 168,  51, 136,   7, 199,  49, 177,  18,  16,  89,  39, 128, 236,  95,
     96,  81, 127, 169,  25, 181,  74,  13,  45, 229, 122, 159, 147, 201, 156, 239,
    160, 224,  59,  77, 174,  42, 245, 176, 200, 235, 187,  60, 131,  83, 153,  97,
     23,  43,   4, 126, 186, 119, 214,  38, 225, 105,  20,  99,  85,  33,  12, 125 >>

rconTable ==
<<
      0,   1,   2,   4,   8,  16,  32,  64, 128,  27,  54 >>

sbox == [x \in Byte |-> sboxTable[x + 1]]

inv_sbox == [x \in Byte |-> inv_sboxTable[x + 1]]

rcon == [x \in 0..10 |-> rconTable[x + 1]]

(* ---------------- gf_mul ---------------- *)

\* A variant of the loop body that never folds the high bit back in: the
\* product of the carry-less multiplication cut to eight bits.
gf_mul_stepNoReduce(s) ==
    [a |-> (s.a * 2) % 256, b |-> s.b \div 2,
     p |-> IF s.b % 2 = 1 THEN Xor(s.p, s.a) ELSE s.p]

\* one pass of the loop body of gf_mul; s = [a, b, p]
gf_mul_step(s) ==
    LET p1 == IF s.b % 2 = 1 THEN Xor(s.p, s.a) ELSE s.p
        hi_bit_set == s.a >= 128
        a1 == (s.a * 2) % 256
        a2 == IF hi_bit_set THEN Xor(a1, 27) ELSE a1
    IN  [a |-> a2, b |-> s.b \div 2, p |-> p1]

RECURSIVE gf_mul_loop(_, _)
gf_mul_loop(s, i) == IF i = 8 THEN s ELSE gf_mul_loop(gf_mul_step(s), i + 1)

gf_mul(a, b) == gf_mul_loop([a |-> a, b |-> b, p |-> 0], 0).p

\* the second operands the block transform passes to gf_mul
MixCoefficients == {2, 3, 9, 11, 13, 14}

\* gf_mul is pure: its values for the block transform, computed once
gf_mul_values == [a \in Byte |-> [b \in MixCoefficients |-> gf_mul(a, b)]]

(* ---------------- keyExpansion ---------------- *)

\* the number of round-key words: std::vector<uint32_t> w(60)
NumWords == 60

\* v[i] of a zero-based C array or vector held as a sequence
At(v, i) == v[i + 1]

\* w ^ v on two 32-bit words
XorWord(w, v) ==
    <<Xor(w[1], v[1]), Xor(w[2], v[2]), Xor(w[3], v[3]), Xor(w[4], v[4])>>

\* A variant of the i % 8 == 0 case that substitutes temp without rotating
\* it.
RotSubRconNoRotate(temp, i) ==
    <<Xor(sbox[temp[1]], rcon[i \div 8]), sbox[temp[2]], sbox[temp[3]],
      sbox[temp[4]]>>

\* temp for i % 8 == 0: RotWord and SubWord, then ^ (rcon[i/8] << 24)
RotSubRcon(temp, i) ==
    <<Xor(sbox[temp[2]], rcon[i \div 8]), sbox[temp[3]], sbox[temp[4]],
      sbox[temp[1]]>>

\* temp for i % 8 == 4: SubWord only
SubWord(temp) == <<sbox[temp[1]], sbox[temp[2]], sbox[temp[3]], sbox[temp[4]]>>

KeyExpansionTemp(w, i) ==
    IF i % 8 = 0 THEN RotSubRcon(At(w, i - 1), i)
    ELSE IF i % 8 = 4 THEN SubWord(At(w, i - 1))
    ELSE At(w, i - 1)

\* w[0..7] after the first loop: the key, four bytes to a word
KeyWords(key) ==
    <<SubSeq(key, 1, 4),   SubSeq(key, 5, 8),   SubSeq(key, 9, 12),
      SubSeq(key, 13, 16), SubSeq(key, 17, 20), SubSeq(key, 21, 24),
      SubSeq(key, 25, 28), SubSeq(key, 29, 32)>>

\* one pass of the second loop: w[i] = w[i-8] ^ temp.  w holds w[0..i-1].
keyExpansionStep(w, i) ==
    Append(w, XorWord(At(w, i - 8), KeyExpansionTemp(w, i)))

\* the passes lo..hi of the second loop, in order.  TLC evaluates a value
\* where it is first read and nests as deep as the pending reads: the range
\* is halved, and the first half is read (Len) before the second half starts,
\* so that the passes are evaluated in the loop's order at a depth of
\* log2(hi - lo).
RECURSIVE keyExpansionLoop(_, _, _)
keyExpansionLoop(w, lo, hi) ==
    IF lo > hi THEN w
    ELSE IF lo = hi THEN keyExpansionStep(w, lo)
    ELSE LET mid == (lo + hi) \div 2
             left == keyExpansionLoop(w, lo, mid)
         IN  IF Len(left) > mid THEN keyExpansionLoop(left, mid + 1, hi)
             ELSE left

\* key: a sequence of 32 bytes
keyExpansion(key) == keyExpansionLoop(KeyWords(key), 8, NumWords - 1)

(* ---------------- the block transform ---------------- *)

\* bytes 4*i .. 4*i + 3 of the state: column i
Col(state, i) == SubSeq(state, 4 * i + 1, 4 * i + 4)

\* state[i*4 + j] ^= (roundKeys[base + i] >> (24 - j*8)) & 0xff
AddRoundKey(state, roundKeys, base) ==
    XorWord(Col(state, 0), At(roundKeys, base))
      \o XorWord(Col(state, 1), At(roundKeys, base + 1))
      \o XorWord(Col(state, 2), At(roundKeys, base + 2))
      \o XorWord(Col(state, 3), At(roundKeys, base + 3))

SubBytes(state) ==
    <<sbox[state[1]], sbox[state[2]], sbox[state[3]], sbox[state[4]],
      sbox[state[5]], sbox[state[6]], sbox[state[7]], sbox[state[8]],
      sbox[state[9]], sbox[state[10]], sbox[state[11]], sbox[state[12]],
      sbox[state[13]], sbox[state[14]], sbox[state[15]], sbox[state[16]]>>

InvSubBytes(state) ==
    <<inv_sbox[state[1]], inv_sbox[state[2]], inv_sbox[state[3]], inv_sbox[state[4]],
      inv_sbox[state[5]], inv_sbox[state[6]], inv_sbox[state[7]], inv_sbox[state[8]],
      inv_sbox[state[9]], inv_sbox[state[10]], inv_sbox[state[11]], inv_sbox[state[12]],
      inv_sbox[state[13]], inv_sbox[state[14]], inv_sbox[state[15]], inv_sbox[state[16]]>>

\* the swaps of ShiftRows: state[1] = state[5], state[5] = state[9], ...
ShiftRows(state) ==
    <<state[1], state[6], state[11], state[16],
      state[5], state[10], state[15], state[4],
      state[9], state[14], state[3], state[8],
      state[13], state[2], state[7], state[12]>>

\* A variant of Inverse ShiftRows that rotates the rows the way ShiftRows
\* does.
InvShiftRowsSameWay(state) ==
    <<state[1], state[6], state[11], state[16],
      state[5], state[10], state[15], state[4],
      state[9], state[14], state[3], state[8],
      state[13], state[2], state[7], state[12]>>

\* the swaps of Inverse ShiftRows: state[13] = state[9], state[9] = state[5], ...
InvShiftRows(state) ==
    <<state[1], state[14], state[11], state[8],
      state[5], state[2], state[15], state[12],
      state[9], state[6], state[3], state[16],
      state[13], state[10], state[7], state[4]>>

\* temp_col times [2 3 1 1; 1 2 3 1; 1 1 2 3; 3 1 1 2]
MixColumn(t) ==
    <<Xor(Xor(gf_mul_values[t[1]][2], gf_mul_values[t[2]][3]), Xor(t[3], t[4])),
      Xor(Xor(t[1], gf_mul_values[t[2]][2]), Xor(gf_mul_values[t[3]][3], t[4])),
      Xor(Xor(t[1], t[2]), Xor(gf_mul_values[t[3]][2], gf_mul_values[t[4]][3])),
      Xor(Xor(gf_mul_values[t[1]][3], t[2]), Xor(t[3], gf_mul_values[t[4]][2]))>>

MixColumns(state) ==
    MixColumn(Col(state, 0)) \o MixColumn(Col(state, 1))
      \o MixColumn(Col(state, 2)) \o MixColumn(Col(state, 3))

\* temp_col times [14 11 13 9; 9 14 11 13; 13 9 14 11; 11 13 9 14]
InvMixColumn(t) ==
    <<Xor(Xor(gf_mul_values[t[1]][14], gf_mul_values[t[2]][11]),
          Xor(gf_mul_values[t[3]][13], gf_mul_values[t[4]][9])),
      Xor(Xor(gf_mul_values[t[1]][9], gf_mul_values[t[2]][14]),
          Xor(gf_mul_values[t[3]][11], gf_mul_values[t[4]][13])),
      Xor(Xor(gf_mul_values[t[1]][13], gf_mul_values[t[2]][9]),
          Xor(gf_mul_values[t[3]][14], gf_mul_values[t[4]][11])),
      Xor(Xor(gf_mul_values[t[1]][11], gf_mul_values[t[2]][13]),
          Xor(gf_mul_values[t[3]][9], gf_mul_values[t[4]][14]))>>

InvMixColumns(state) ==
    InvMixColumn(Col(state, 0)) \o InvMixColumn(Col(state, 1))
      \o InvMixColumn(Col(state, 2)) \o InvMixColumn(Col(state, 3))

\* the last round of the loops: for (round = 1; round <= 13; round++)
LastLoopRound == 13

\* if (round != 13) { MixColumns }
MixColumnsUnlessLast(state, round) ==
    IF round /= LastLoopRound THEN MixColumns(state) ELSE state

\* One pass of the loop of aesEncryptBlock.  The loops of the two block
\* functions run on [state, round], the 16 bytes and the loop variable.
EncryptRound(s, roundKeys) ==
    [state |-> AddRoundKey(
                   MixColumnsUnlessLast(ShiftRows(SubBytes(s.state)), s.round),
                   roundKeys, s.round * 4),
     round |-> s.round + 1]

\* for (round = 1; round <= 13; ++round), from s on
RECURSIVE EncryptRounds(_, _)
EncryptRounds(s, roundKeys) ==
    IF s.round > LastLoopRound THEN s.state
    ELSE EncryptRounds(EncryptRound(s, roundKeys), roundKeys)

\* in: a sequence of 16 bytes
aesEncryptBlock(in, roundKeys) ==
    AddRoundKey(
        EncryptRounds([state |-> AddRoundKey(in, roundKeys, 0), round |-> 1],
                      roundKeys),
        roundKeys, 56)

\* if (round != 13) { InvMixColumns }
InvMixColumnsUnlessLast(state, round) ==
    IF round /= LastLoopRound THEN InvMixColumns(state) ELSE state

\* one pass of the loop of aesDecryptBlock
DecryptRound(s, roundKeys) ==
    [state |-> InvMixColumnsUnlessLast(
                   AddRoundKey(InvSubBytes(InvShiftRows(s.state)),
                               roundKeys, s.round * 4),
                   s.round),
     round |-> s.round - 1]

\* for (round = 13; round >= 1; --round), from s on
RECURSIVE DecryptRounds(_, _)
DecryptRounds(s, roundKeys) ==
    IF s.round < 1 THEN s.state
    ELSE DecryptRounds(DecryptRound(s, roundKeys), roundKeys)

aesDecryptBlock(in, roundKeys) ==
    AddRoundKey(
        DecryptRounds([state |-> AddRoundKey(in, roundKeys, 56),
                       round |-> LastLoopRound],
                      roundKeys),
        roundKeys, 0)
(* ---------------- base64 ---------------- *)

\* static const char base64_chars[]: the character codes of
\* "ABCDEFGHIJKLMNOPQRSTUVWXYZabcdefghijklmnopqrstuvwxyz0123456789+/"
base64_chars ==
    <<65, 66, 67, 68, 69, 70, 71, 72, 73, 74, 75, 76, 77,
      78, 79, 80, 81, 82, 83, 84, 85, 86, 87, 88, 89, 90,
      97, 98, 99, 100, 101, 102, 103, 104, 105, 106, 107, 108, 109,
      110, 111, 112, 113, 114, 115, 116, 117, 118, 119, 120, 121, 122,
      48, 49, 50, 51, 52, 53, 54, 55, 56, 57, 43, 47>>

\* the character '='
PadChar == 61

\* 2^n
RECURSIVE Pow2(_)
Pow2(n) == IF n = 0 THEN 1 ELSE 2 * Pow2(n - 1)

\* The int `val` of both codecs only grows (val << 8, val << 6) and is read
\* at bits 0..11 only.  The model keeps its low 16 bits: what C does with
\* the higher bits, the wrap of int included, reaches no output.
LowBits(val) == val % 65536

\* (v >> n) & mask, mask = 2^k - 1
ShiftRightMask(v, n, mask) == (v \div Pow2(n)) % (mask + 1)

\* the while loop of base64Encode: while (valb >= 0) { push; valb -= 6 }
RECURSIVE base64EncodeDrain(_)
base64EncodeDrain(s) ==
    IF s.valb < 0 THEN s
    ELSE base64EncodeDrain(
            [encoded |-> Append(s.encoded,
                                At(base64_chars, ShiftRightMask(s.val, s.valb, 63))),
             val |-> s.val, valb |-> s.valb - 6])

\* one pass of the for loop of base64Encode, for the byte c
base64EncodeStep(s, c) ==
    base64EncodeDrain(
        [encoded |-> s.encoded,
         val |-> LowBits((s.val * 256) + c),
         valb |-> s.valb + 8])

\* the passes of the for loop for data[lo..hi] (1-based), in order, halved as
\* in keyExpansionLoop
RECURSIVE base64EncodeLoop(_, _, _, _)
base64EncodeLoop(s, data, lo, hi) ==
    IF lo > hi THEN s
    ELSE IF lo = hi THEN base64EncodeStep(s, data[lo])
    ELSE LET mid == (lo + hi) \div 2
             left == base64EncodeLoop(s, data, lo, mid)
         IN  IF left.valb < 0 THEN base64EncodeLoop(left, data, mid + 1, hi)
             ELSE left

\* while (encoded.size() % 4) encoded.push_back('=')
RECURSIVE base64PadTail(_)
base64PadTail(encoded) ==
    IF Len(encoded) % 4 = 0 THEN encoded
    ELSE base64PadTail(Append(encoded, PadChar))

base64Encode(data) ==
    LET s == base64EncodeLoop([encoded |-> <<>>, val |-> 0, valb |-> -6],
                              data, 1, Len(data))
        tail == IF s.valb > -6
                THEN Append(s.encoded,
                            At(base64_chars,
                               ShiftRightMask(s.val * 256, s.valb + 8, 63)))
                ELSE s.encoded
    IN  base64PadTail(tail)

\* std::vector<int> T(256, -1); T[base64_chars[i]] = i
T == [c \in Byte |->
        IF \E i \in 0..63 : At(base64_chars, i) = c
        THEN CHOOSE i \in 0..63 : At(base64_chars, i) = c
        ELSE -1]

\* A variant of the pass that goes on to the next character where the
\* loop breaks.
base64DecodeStepSkip(s, c) ==
    IF T[c] = -1 THEN s
    ELSE LET val == LowBits((s.val * 64) + T[c])
             valb == s.valb + 6
         IN  IF valb >= 0
             THEN [decoded |-> Append(s.decoded, ShiftRightMask(val, valb, 255)),
                   val |-> val, valb |-> valb - 8, stop |-> FALSE]
             ELSE [decoded |-> s.decoded, val |-> val, valb |-> valb,
                   stop |-> FALSE]

\* one pass of the for loop of base64Decode, for the character c; `stop` is
\* set by the break
base64DecodeStep(s, c) ==
    IF s.stop THEN s
    ELSE IF T[c] = -1 THEN [s EXCEPT !.stop = TRUE]
    ELSE LET val == LowBits((s.val * 64) + T[c])
             valb == s.valb + 6
         IN  IF valb >= 0
             THEN [decoded |-> Append(s.decoded, ShiftRightMask(val, valb, 255)),
                   val |-> val, valb |-> valb - 8, stop |-> FALSE]
             ELSE [decoded |-> s.decoded, val |-> val, valb |-> valb,
                   stop |-> FALSE]

RECURSIVE base64DecodeLoop(_, _, _, _)
base64DecodeLoop(s, encoded, lo, hi) ==
    IF lo > hi THEN s
    ELSE IF lo = hi THEN base64DecodeStep(s, encoded[lo])
    ELSE LET mid == (lo + hi) \div 2
             left == base64DecodeLoop(s, encoded, lo, mid)
         IN  IF left.valb < 0 THEN base64DecodeLoop(left, encoded, mid + 1, hi)
             ELSE left

base64Decode(encoded) ==
    base64DecodeLoop([decoded |-> <<>>, val |-> 0, valb |-> -8, stop |-> FALSE],
                     encoded, 1, Len(encoded)).decoded

(* ---------------- PKCS7 ---------------- *)

\* n copies of the byte b
RECURSIVE Fill(_, _)
Fill(n, b) == IF n = 0 THEN <<>> ELSE Append(Fill(n - 1, b), b)

\* A variant of pkcs7Pad that adds nothing to data already filling its
\* blocks; the token-length property tells it from pkcs7Pad.
pkcs7PadIfNeeded(data, blockSize) ==
    IF Len(data) % blockSize = 0 THEN data
    ELSE data \o Fill(blockSize - (Len(data) % blockSize),
                      blockSize - (Len(data) % blockSize))

pkcs7Pad(data, blockSize) ==
    LET padding == blockSize - (Len(data) % blockSize)
    IN  data \o Fill(padding, padding % 256)

\* some i in data.size() - padding .. data.size() - 1 has data[i] != padding
BadPaddingByte(data, padding) ==
    \E i \in (Len(data) - padding)..(Len(data) - 1) : At(data, i) /= padding

\* A result is [err, val].  Returned normally: err is empty and val is the
\* value.  Thrown: err holds the parts of the exception's what(), outermost
\* first, and val is empty (no value reaches the caller).
Returns(v) == [err |-> <<>>, val |-> v]

Throws(what) == [err |-> <<what>>, val |-> <<>>]

\* A variant of pkcs7Unpad that trusts the last byte and does not compare
\* the bytes before it; the padding property tells it from pkcs7Unpad.
pkcs7UnpadLastByteOnly(data) ==
    IF data = <<>> THEN Throws("Cannot unpad empty data")
    ELSE IF data[Len(data)] > 16 \/ data[Len(data)] = 0
         THEN Throws("Invalid padding")
    ELSE Returns(SubSeq(data, 1, Len(data) - data[Len(data)]))

\* A variant of pkcs7Unpad that leaves the first padding byte in place.
pkcs7UnpadKeepsOne(data) ==
    IF data = <<>> THEN Throws("Cannot unpad empty data")
    ELSE IF data[Len(data)] > 16 \/ data[Len(data)] = 0
         THEN Throws("Invalid padding")
    ELSE IF BadPaddingByte(data, data[Len(data)])
         THEN Throws("Invalid padding bytes")
    ELSE Returns(SubSeq(data, 1, Len(data) - data[Len(data)] + 1))

\* A variant of pkcs7Unpad that takes no bytes for an empty text.
pkcs7UnpadEmptyIsEmpty(data) ==
    IF data = <<>> THEN Returns(<<>>)
    ELSE IF data[Len(data)] > 16 \/ data[Len(data)] = 0
         THEN Throws("Invalid padding")
    ELSE IF BadPaddingByte(data, data[Len(data)])
         THEN Throws("Invalid padding bytes")
    ELSE Returns(SubSeq(data, 1, Len(data) - data[Len(data)]))

\* pkcs7Unpad is called by decrypt alone, with data of 0, 16, 32, ... bytes;
\* then data.size() - padding cannot wrap.
pkcs7Unpad(data) ==
    IF data = <<>> THEN Throws("Cannot unpad empty data")
    ELSE LET padding == data[Len(data)]
         IN  IF padding > 16 \/ padding = 0 THEN Throws("Invalid padding")
             ELSE IF BadPaddingByte(data, padding)
                  THEN Throws("Invalid padding bytes")
             ELSE Returns(SubSeq(data, 1, Len(data) - padding))

(* ---------------- SimpleAES ---------------- *)

\* A cipher instance is [key, iv], the two fields of the class.

\* A variant of the constructor that checks the key alone; the construction
\* property tells it from SimpleAES.
SimpleAESKeyOnly(key, iv) ==
    IF Len(key) /= 32 THEN Throws("Key must be 32 bytes for AES-256")
    ELSE Returns([key |-> key, iv |-> iv])

\* SimpleAES::SimpleAES: the result's val is the instance constructed
SimpleAES(key, iv) ==
    IF Len(key) /= 32 THEN Throws("Key must be 32 bytes for AES-256")
    ELSE IF Len(iv) /= 16 THEN Throws("IV must be 16 bytes")
    ELSE Returns([key |-> key, iv |-> iv])

\* a[j] ^ b[j] for the 16 bytes of two blocks
XorBlock(a, b) ==
    XorWord(Col(a, 0), Col(b, 0)) \o XorWord(Col(a, 1), Col(b, 1))
      \o XorWord(Col(a, 2), Col(b, 2)) \o XorWord(Col(a, 3), Col(b, 3))

\* bytes i .. i + 15 of a vector (i zero-based)
BlockAt(bytes, i) == SubSeq(bytes, i + 1, i + 16)

\* The CBC loops run on [bytes, previousBlock, i]: the output so far, the
\* block chained into the next one, and the loop variable.

\* cipherBytes.insert(end, block); previousBlock = block; i += 16
CbcPush(s, out, chained) ==
    [bytes |-> s.bytes \o out, previousBlock |-> chained, i |-> s.i + 16]

\* in encrypt the block chained is the block put out
CbcEncryptPush(s, block) == CbcPush(s, block, block)

\* one pass of the CBC loop of encrypt
CbcEncryptStep(s, plainBytes, roundKeys) ==
    CbcEncryptPush(s, aesEncryptBlock(
                          XorBlock(BlockAt(plainBytes, s.i), s.previousBlock),
                          roundKeys))

\* for (i = 0; i < plainBytes.size(); i += 16), from s on
RECURSIVE CbcEncryptLoop(_, _, _)
CbcEncryptLoop(s, plainBytes, roundKeys) ==
    IF s.i >= Len(plainBytes) THEN s
    ELSE CbcEncryptLoop(CbcEncryptStep(s, plainBytes, roundKeys),
                        plainBytes, roundKeys)

\* the CBC loop of encrypt: the cipher bytes of the padded plain bytes
CbcEncrypt(plainBytes, iv, roundKeys) ==
    CbcEncryptLoop([bytes |-> <<>>, previousBlock |-> iv, i |-> 0],
                   plainBytes, roundKeys).bytes

\* one pass of the CBC loop of decrypt: the cipher block is decrypted, xored
\* with the previous cipher block, and becomes the previous block itself
CbcDecryptStep(s, cipherBytes, roundKeys) ==
    CbcPush(s,
            XorBlock(aesDecryptBlock(BlockAt(cipherBytes, s.i), roundKeys),
                     s.previousBlock),
            BlockAt(cipherBytes, s.i))

\* for (i = 0; i < cipherBytes.size(); i += 16), from s on
RECURSIVE CbcDecryptLoop(_, _, _)
CbcDecryptLoop(s, cipherBytes, roundKeys) ==
    IF s.i >= Len(cipherBytes) THEN s
    ELSE CbcDecryptLoop(CbcDecryptStep(s, cipherBytes, roundKeys),
                        cipherBytes, roundKeys)

\* the CBC loop of decrypt: the plain bytes, padding included
CbcDecrypt(cipherBytes, iv, roundKeys) ==
    CbcDecryptLoop([bytes |-> <<>>, previousBlock |-> iv, i |-> 0],
                   cipherBytes, roundKeys).bytes

\* n times the name f
RECURSIVE Calls(_, _)
Calls(f, n) == IF n = 0 THEN <<>> ELSE Append(Calls(f, n - 1), f)

\* A call of a method on the instance self gives [self, err, val, calls]:
\* self is the instance after the call, err and val are as in a result, and
\* calls names, in order, the private functions the call has run.
MethodResult(self, r, calls) ==
    [self |-> self, err |-> r.err, val |-> r.val, calls |-> calls]

\* encrypt from its first statement after the empty case on
encryptNonEmpty(self, plainText) ==
    LET plainBytes == pkcs7Pad(plainText, 16)
    IN  MethodResult(
            self,
            Returns(base64Encode(CbcEncrypt(plainBytes, self.iv,
                                            keyExpansion(self.key)))),
            <<"pkcs7Pad", "keyExpansion">>
              \o Calls("aesEncryptBlock", Len(plainBytes) \div 16)
              \o <<"base64Encode">>)

\* A variant of encrypt without the empty case; the empty-input property
\* tells it from encrypt.
encryptAlwaysPads(self, plainText) == encryptNonEmpty(self, plainText)

\* the last 16 of the bytes a token holds
LastBlock(token) ==
    SubSeq(base64Decode(token), Len(base64Decode(token)) - 15,
           Len(base64Decode(token)))

\* A variant of encrypt that keeps the chain running from one call to the
\* next: the instance's IV becomes the last cipher block.  The stability
\* property tells it from encrypt.
encryptKeepsChain(self, plainText) ==
    IF plainText = <<>> THEN MethodResult(self, Returns(<<>>), <<>>)
    ELSE [encryptNonEmpty(self, plainText) EXCEPT
              !.self = [key |-> self.key,
                        iv |-> LastBlock(encryptNonEmpty(self, plainText).val)]]

\* SimpleAES::encrypt
encrypt(self, plainText) ==
    IF plainText = <<>> THEN MethodResult(self, Returns(<<>>), <<>>)
    ELSE encryptNonEmpty(self, plainText)

\* catch (const std::exception& e) { throw std::runtime_error("Decryption failed: " + e.what()) }
DecryptionFailed(r) == [err |-> <<"Decryption failed: ">> \o r.err, val |-> <<>>]

\* A variant of the catch clause that lets the exception through as it is;
\* the ciphertext-length property tells it from Caught.
Uncaught(r) == r

\* the try block of decrypt: what it throws is caught and thrown again
Caught(r) == IF r.err /= <<>> THEN DecryptionFailed(r) ELSE r

\* SimpleAES::decrypt
decrypt(self, cipherText) ==
    IF cipherText = <<>> THEN MethodResult(self, Returns(<<>>), <<>>)
    ELSE LET cipherBytes == base64Decode(cipherText)
         IN  IF Len(cipherBytes) % 16 /= 0
             THEN MethodResult(self,
                               Caught(Throws("Invalid ciphertext length")),
                               <<"base64Decode">>)
             ELSE MethodResult(
                      self,
                      Caught(pkcs7Unpad(CbcDecrypt(cipherBytes, self.iv,
                                                   keyExpansion(self.key)))),
                      <<"base64Decode", "keyExpansion">>
                        \o Calls("aesDecryptBlock", Len(cipherBytes) \div 16)
                        \o <<"pkcs7Unpad">>)
(* ======================================================================= *)
(* A cipher instance and its callers                                       *)
(* ======================================================================= *)

VARIABLES
    live,   \* TRUE while a constructed instance exists
    obj,    \* the instance, [key, iv]; NoObject while none exists
    ctor,   \* the last constructor call: its arguments and what it threw
    last,   \* the last method call: [op, arg, err, val, calls]
    sent,   \* the first non-empty plaintext the instance has encrypted, the
            \* token returned for it, and whether a later call has failed
    blk,    \* a block under the block transform (SpecBlock)
    tam,    \* a ciphertext under tampering (SpecTamper)
    g_aes,              \* static SimpleAES* g_aes; NoObject is nullptr
    g_userPassword,     \* static std::string g_userPassword
    g_keysInitialized,  \* static bool g_keysInitialized
    files,  \* the contents of g_keyFile and g_ivFile; empty when absent
    ret,    \* the last call into the bridge and what it returned
    strategy,  \* std::unique_ptr<IEncryptionStrategy> strategy of the context
    keyFiles,  \* the contents of the AES strategy's key and IV files
    cx,     \* the last call on the EncryptionContext and how it ended
    xr,     \* an XOREncryptionStrategy and the last call on it (SpecXor)
    cod,    \* bytes under the padding and base64 helpers (SpecCodec)
    fm,     \* bytes under the field product and the round steps (SpecField)
    dk,     \* a passphrase under deriveKey (SpecDerive)
    sc,     \* the last call on an AESEncryptionStrategy (SpecStrategy)
    thr,    \* two threads inside the bridge (SpecThreads)
    auth,   \* an AuthManager and the last call on it (SpecAuth)
    pe      \* a password under PasswordEntry's analysis (SpecEntry)

cipherVars == <<live, obj, ctor, last, sent>>

bridgeVars == <<g_aes, g_userPassword, g_keysInitialized, files, ret>>

\* the units that are exercised on their own
unitVars == <<fm, dk, sc, thr, auth, pe>>

\* the strategy layer and the helper functions
otherVars == <<strategy, keyFiles, cx, xr, cod, unitVars>>

vars == <<live, obj, ctor, last, sent, blk, tam,
          g_aes, g_userPassword, g_keysInitialized, files, ret,
          strategy, keyFiles, cx, xr, cod, fm, dk, sc, thr, auth, pe>>

NoObject == [key |-> <<>>, iv |-> <<>>]

NoCtor == [op |-> "none", key |-> <<>>, iv |-> <<>>, err |-> <<>>]

NoCall == [op |-> "none", arg |-> <<>>, err |-> <<>>, val |-> <<>>, calls |-> <<>>]

NoSent == [plain |-> <<>>, token |-> <<>>, failed |-> FALSE]

NoBlock == [key |-> <<>>, in |-> <<>>, out |-> <<>>, back |-> <<>>]

NoTamper == [stage |-> "none"]

NoFiles == [key |-> <<>>, iv |-> <<>>]

NoReturn ==
    [op |-> "none", arg |-> [null |-> TRUE, str |-> <<>>],
     out |-> [null |-> TRUE, str |-> <<>>], did |-> "none"]

\* unique_ptr holding nothing
NoStrategy ==
    [kind |-> "nullptr", key |-> <<>>, iv |-> <<>>, initialized |-> FALSE]

NoContextCall ==
    [op |-> "none", arg |-> <<>>, type |-> "", err |-> <<>>, val |-> <<>>,
     plain |-> <<>>, set |-> NoStrategy, was |-> NoStrategy]

NoXor == [op |-> "none"]

NoCodec == [op |-> "none"]

NoField == [op |-> "none"]

NoDerive == [op |-> "none"]

NoStrategyCall == [op |-> "none"]

NoThreads == [op |-> "none"]

NoAuth == [op |-> "none"]

NoEntry == [op |-> "none"]

\* none of the units exercised
UnitsIdle ==
    /\ fm = NoField
    /\ dk = NoDerive
    /\ sc = NoStrategyCall
    /\ thr = NoThreads
    /\ auth = NoAuth
    /\ pe = NoEntry

\* a default-constructed EncryptionContext, no key files, nothing called
OthersIdle ==
    /\ strategy = NoStrategy
    /\ keyFiles = NoFiles
    /\ cx = NoContextCall
    /\ xr = NoXor
    /\ cod = NoCodec
    /\ UnitsIdle

\* the state before anything is constructed or called
CipherIdle ==
    /\ live = FALSE
    /\ obj = NoObject
    /\ ctor = NoCtor
    /\ last = NoCall
    /\ sent = NoSent

\* the statics of native_ffi_bridge.cpp as initialized, with no key files
BridgeIdle ==
    /\ g_aes = NoObject
    /\ g_userPassword = <<>>
    /\ g_keysInitialized = FALSE
    /\ files = NoFiles
    /\ ret = NoReturn

(* ---------------- the inputs ---------------- *)

\* the plaintexts have 0, 1 and 16k-1, 16k, 16k+1 bytes for k in 1..MaxBlocks
MaxBlocks == 2

\* the first n bytes of 00 01 02 ...: for n = 32 the key of FIPS-197 C.3
RECURSIVE KeyBytes(_)
KeyBytes(n) == IF n = 0 THEN <<>> ELSE Append(KeyBytes(n - 1), (n - 1) % 256)

\* the first n bytes of f0 f1 f2 ...
RECURSIVE IvBytes(_)
IvBytes(n) == IF n = 0 THEN <<>> ELSE Append(IvBytes(n - 1), (239 + n) % 256)

Keys == {KeyBytes(n) : n \in {31, 32, 33}}

Ivs == {IvBytes(n) : n \in {15, 16, 17}}

\* n bytes of text: 'A', 'B', ..., with a byte above 127 among them
RECURSIVE Text(_)
Text(n) ==
    IF n = 0 THEN <<>>
    ELSE Append(Text(n - 1), IF n % 5 = 0 THEN 200 + n ELSE 64 + n)

TextLengths ==
    {0, 1} \cup UNION {{16 * k - 1, 16 * k, 16 * k + 1} : k \in 1..MaxBlocks}

PlainTexts == {Text(n) : n \in TextLengths}

\* The block c with aesDecryptBlock(c, roundKeys) = p: the steps of
\* aesDecryptBlock undone from the last to the first.  A caller who knows the
\* key can build such blocks; the model uses them to hand decrypt cipher
\* bytes whose plain bytes it has chosen.
ForgeRound(s, roundKeys) ==
    [state |-> ShiftRows(SubBytes(
                   AddRoundKey(MixColumnsUnlessLast(s.state, s.round),
                               roundKeys, s.round * 4))),
     round |-> s.round + 1]

RECURSIVE ForgeRounds(_, _)
ForgeRounds(s, roundKeys) ==
    IF s.round > LastLoopRound THEN s.state
    ELSE ForgeRounds(ForgeRound(s, roundKeys), roundKeys)

ForgeBlock(p, roundKeys) ==
    AddRoundKey(
        ForgeRounds([state |-> AddRoundKey(p, roundKeys, 0), round |-> 1],
                    roundKeys),
        roundKeys, 56)

\* the token that decrypt, under key and iv, turns into the 16 plain bytes p
ForgeToken(p, key, iv) ==
    base64Encode(ForgeBlock(XorBlock(p, iv), keyExpansion(key)))

\* 16 plain bytes: n bytes of text, then 15 - n bytes 16 - n, then the byte e
PlainBlock(n, e) == Text(n) \o Fill(15 - n, 16 - n) \o <<e>>

\* plain blocks with a good padding (of 14, 16 and 1 bytes), with a last byte
\* of 0 and of 17, and with a last byte of 3 after two bytes that are not 3
ForgedPlainBlocks ==
    {PlainBlock(2, 14), PlainBlock(0, 16), PlainBlock(15, 1),
     PlainBlock(2, 0), PlainBlock(0, 17), PlainBlock(2, 3)}

ForgedTokens ==
    {ForgeToken(p, KeyBytes(32), IvBytes(16)) : p \in ForgedPlainBlocks}

\* "=", "!QUJD" (no bytes), "QUJD" (three bytes) and "QUJDRA==" (four bytes)
JunkTokens ==
    {<<61>>, <<33, 81, 85, 74, 68>>, <<81, 85, 74, 68>>,
     <<81, 85, 74, 68, 82, 65, 61, 61>>}

\* the token without its last four characters
Truncated(token) == SubSeq(token, 1, Len(token) - 4)

\* the token with its first character replaced by another of the alphabet
Flipped(token) == [token EXCEPT ![1] = IF token[1] = 65 THEN 66 ELSE 65]

\* the tokens handed to decrypt: the empty one, the forged and the junk
\* ones, and the token encrypt has returned, whole, truncated and altered
Tokens ==
    {<<>>} \cup ForgedTokens \cup JunkTokens
      \cup (IF sent = NoSent THEN {}
            ELSE {sent.token, Truncated(sent.token), Flipped(sent.token)})

(* ---------------- the actions ---------------- *)

Init ==
    /\ CipherIdle
    /\ blk = NoBlock
    /\ tam = NoTamper
    /\ BridgeIdle
    /\ OthersIdle

\* new SimpleAES(key, iv): an instance exists after it only if it has not
\* thrown
Construct(key, iv) ==
    /\ ~live
    /\ \E r \in {SimpleAES(key, iv)} :
           /\ live' = (r.err = <<>>)
           /\ obj' = IF r.err = <<>> THEN r.val ELSE NoObject
           /\ ctor' = [op |-> "SimpleAES", key |-> key, iv |-> iv, err |-> r.err]
    /\ UNCHANGED <<otherVars, last, sent, blk, tam, bridgeVars>>

\* obj.encrypt(plainText)
Encrypt(plainText) ==
    /\ live
    /\ \E r \in {encrypt(obj, plainText)} :
           /\ obj' = r.self
           /\ last' = [op |-> "encrypt", arg |-> plainText, err |-> r.err,
                       val |-> r.val, calls |-> r.calls]
           /\ sent' = IF sent = NoSent /\ plainText /= <<>>
                      THEN [plain |-> plainText, token |-> r.val, failed |-> FALSE]
                      ELSE sent
    /\ UNCHANGED <<otherVars, live, ctor, blk, tam, bridgeVars>>

\* obj.decrypt(cipherText)
Decrypt(cipherText) ==
    /\ live
    /\ \E r \in {decrypt(obj, cipherText)} :
           /\ obj' = r.self
           /\ last' = [op |-> "decrypt", arg |-> cipherText, err |-> r.err,
                       val |-> r.val, calls |-> r.calls]
           /\ sent' = IF sent /= NoSent /\ r.err /= <<>>
                      THEN [sent EXCEPT !.failed = TRUE]
                      ELSE sent
    /\ UNCHANGED <<otherVars, live, ctor, blk, tam, bridgeVars>>

Next ==
    \/ \E key \in Keys, iv \in Ivs : Construct(key, iv)
    \/ \E plainText \in PlainTexts : Encrypt(plainText)
    \/ \E cipherText \in Tokens : Decrypt(cipherText)

Spec == Init /\ [][Next]_vars

(* ---------------- properties of an instance ---------------- *)

\* the bytes a token holds
Decoded(token) == base64Decode(token)

\* the plain bytes, padding included, that the CBC loop of decrypt gets
\* from a token under the instance's key and IV
PlainBytesOf(token) == CbcDecrypt(Decoded(token), obj.iv, keyExpansion(obj.key))

\* the last of the plain bytes of a token
LastPlainByte(token) == PlainBytesOf(token)[Len(PlainBytesOf(token))]

InvalidLength == <<"Decryption failed: ", "Invalid ciphertext length">>

InvalidPadding == <<"Decryption failed: ", "Invalid padding">>

InvalidPaddingBytes == <<"Decryption failed: ", "Invalid padding bytes">>

\* the last call was decrypt, of a token holding one or more whole blocks
DecryptedWholeBlocks ==
    /\ last.op = "decrypt"
    /\ Decoded(last.arg) /= <<>>
    /\ Len(Decoded(last.arg)) % 16 = 0

\* C1: decrypt(encrypt(P)) returns exactly P and does not fail: when the
\* token that encrypt returned for P is handed to decrypt of the same
\* instance, decrypt returns P.
RoundTrip ==
    (last.op = "decrypt" /\ sent /= NoSent /\ last.arg = sent.token)
        => (last.err = <<>> /\ last.val = sent.plain)

\* C4: for a non-empty plaintext of n bytes encrypt returns a token of a
\* multiple of 4 characters that decodes to 16 * (n \div 16 + 1) bytes.
TokenLength ==
    (last.op = "encrypt" /\ last.arg /= <<>>)
        => /\ last.err = <<>>
           /\ Len(last.val) % 4 = 0
           /\ Len(Decoded(last.val)) = 16 * ((Len(last.arg) \div 16) + 1)

\* a plaintext of exactly one block has been encrypted to two blocks
FullExtraBlock ==
    /\ last.op = "encrypt"
    /\ Len(last.arg) = 16
    /\ Len(Decoded(last.val)) = 32

\* C5: decrypt of a token whose decoded byte count is not a multiple of 16
\* fails with the invalid-ciphertext-length error, having run base64Decode
\* and nothing else: no key expansion, no block decryption.
BadLengthRejected ==
    (last.op = "decrypt" /\ Len(Decoded(last.arg)) % 16 /= 0)
        => /\ last.err = InvalidLength
           /\ last.val = <<>>
           /\ last.calls = <<"base64Decode">>

\* the token encrypt returned, cut to 15 bytes, has been handed to decrypt
TruncatedTokenDecrypted ==
    /\ sent /= NoSent
    /\ last.op = "decrypt"
    /\ last.arg = Truncated(sent.token)
    /\ Len(Decoded(last.arg)) % 16 = 15

\* C6: decrypt of whole blocks whose last plain byte p is 0 or above 16, or
\* whose last p plain bytes are not all p, fails with an invalid-padding
\* error; and a decrypt that fails returns no plaintext bytes.
BadPaddingRejected ==
    /\ (DecryptedWholeBlocks
          /\ (LastPlainByte(last.arg) = 0 \/ LastPlainByte(last.arg) > 16))
         => last.err = InvalidPadding
    /\ (DecryptedWholeBlocks
          /\ LastPlainByte(last.arg) \in 1..16
          /\ BadPaddingByte(PlainBytesOf(last.arg), LastPlainByte(last.arg)))
         => last.err = InvalidPaddingBytes
    /\ (last.op = "decrypt" /\ last.err /= <<>>) => last.val = <<>>

\* a block ending 3, 4, 3 has been decrypted and rejected
MixedPaddingDecrypted ==
    /\ DecryptedWholeBlocks
    /\ LastPlainByte(last.arg) = 3
    /\ BadPaddingByte(PlainBytesOf(last.arg), 3)
    /\ last.err = InvalidPaddingBytes

\* C7: construction succeeds if and only if the key has 32 bytes and the IV
\* has 16; when it fails it throws and no instance results.
ConstructIffLengths ==
    ctor.op = "SimpleAES"
        => /\ live <=> (Len(ctor.key) = 32 /\ Len(ctor.iv) = 16)
           /\ live <=> (ctor.err = <<>>)
           /\ live => obj = [key |-> ctor.key, iv |-> ctor.iv]
           /\ ~live => obj = NoObject

\* construction with a 32-byte key and a 17-byte IV has failed
WrongIvRejected ==
    /\ ctor.op = "SimpleAES"
    /\ Len(ctor.key) = 32
    /\ Len(ctor.iv) = 17
    /\ ~live
    /\ ctor.err = <<"IV must be 16 bytes">>

\* C8: encrypt of the empty plaintext returns the empty token and decrypt of
\* the empty token returns the empty plaintext, without failing and without
\* running any of the padding, key schedule, chaining or codec functions.
EmptyIsEmpty ==
    (last.op \in {"encrypt", "decrypt"} /\ last.arg = <<>>)
        => (last.err = <<>> /\ last.val = <<>> /\ last.calls = <<>>)

\* the empty plaintext has been encrypted
EmptyEncrypted == last.op = "encrypt" /\ last.arg = <<>> /\ last.val = <<>>

\* C9: no call changes the instance's key or IV, and encrypting again the
\* plaintext first encrypted returns the token first returned, whatever
\* calls, failed ones included, were made in between.
KeyIvStable ==
    /\ live => (obj.key = ctor.key /\ obj.iv = ctor.iv)
    /\ (last.op = "encrypt" /\ sent /= NoSent /\ last.arg = sent.plain)
         => last.val = sent.token

\* the first plaintext has been encrypted again after a failed decrypt
ReencryptedAfterFailure ==
    /\ sent /= NoSent
    /\ sent.failed
    /\ last.op = "encrypt"
    /\ last.arg = sent.plain
    /\ last.val = sent.token

(* ======================================================================= *)
(* The block transform on one block                                        *)
(* ======================================================================= *)

\* the key, input and output of FIPS-197 Appendix C.3
FipsKey == KeyBytes(32)

FipsBlock ==
    <<0, 17, 34, 51, 68, 85, 102, 119, 136, 153, 170, 187, 204, 221, 238, 255>>

FipsCipher ==
    <<142, 162, 183, 202, 81, 103, 69, 191, 234, 252, 73, 144, 75, 73, 96, 137>>

\* the input blocks are FipsBlock xored with 16 bytes m, m in 0..MaxBlockMask
MaxBlockMask == 19

BlockInputs == {XorBlock(FipsBlock, Fill(16, m)) : m \in 0..MaxBlockMask}

BlockKeys == {FipsKey, Fill(32, 0), IvBytes(32)}

InitBlock ==
    /\ CipherIdle
    /\ tam = NoTamper
    /\ BridgeIdle
    /\ OthersIdle
    /\ blk \in {[key |-> key, in |-> in, out |-> <<>>, back |-> <<>>] :
                   key \in BlockKeys, in \in BlockInputs}

\* keyExpansion(key, roundKeys); aesEncryptBlock(in, out, roundKeys)
BlockEncrypt ==
    /\ blk.out = <<>>
    /\ blk' = [blk EXCEPT !.out = aesEncryptBlock(blk.in, keyExpansion(blk.key))]
    /\ UNCHANGED <<otherVars, cipherVars, tam, bridgeVars>>

\* keyExpansion(key, roundKeys); aesDecryptBlock(out, back, roundKeys)
BlockDecrypt ==
    /\ blk.out /= <<>>
    /\ blk.back = <<>>
    /\ blk' = [blk EXCEPT !.back = aesDecryptBlock(blk.out, keyExpansion(blk.key))]
    /\ UNCHANGED <<otherVars, cipherVars, tam, bridgeVars>>

NextBlock == BlockEncrypt \/ BlockDecrypt

SpecBlock == InitBlock /\ [][NextBlock]_vars

\* C2: with the key 00 01 .. 1f and the input block 00 11 .. ff,
\* keyExpansion followed by aesEncryptBlock puts out the block
\* 8e a2 b7 ca 51 67 45 bf ea fc 49 90 4b 49 60 89 of FIPS-197 C.3.
KnownAnswer ==
    (blk.key = FipsKey /\ blk.in = FipsBlock /\ blk.out /= <<>>)
        => blk.out = FipsCipher

(* ======================================================================= *)
(* A ciphertext altered on its way                                         *)
(* ======================================================================= *)

\* the plaintext fills TamperBlocks blocks once padded
TamperBlocks == 3

TamperPlain == pkcs7Pad(Text(16 * TamperBlocks - 5), 16)

\* the cipher bytes of TamperPlain under FipsKey and the IV f0 f1 .. ff
TamperCipher == CbcEncrypt(TamperPlain, IvBytes(16), keyExpansion(FipsKey))

\* bytes with bit `bit` of the byte at `index` (zero-based) inverted
FlipBit(bytes, index, bit) ==
    [bytes EXCEPT ![index + 1] = Xor(bytes[index + 1], Pow2(bit))]

InitTamper ==
    /\ CipherIdle
    /\ blk = NoBlock
    /\ BridgeIdle
    /\ OthersIdle
    /\ tam \in {[stage |-> "encrypted", plain |-> TamperPlain,
                 cipher |-> TamperCipher, i |-> i, pos |-> pos, bit |-> bit,
                 clean |-> <<>>, got |-> <<>>] :
                    i \in 0..(TamperBlocks - 2), pos \in 0..15, bit \in 0..7}

\* the CBC loop of decrypt on the cipher bytes as encrypt made them
DecryptIntact ==
    /\ tam.stage = "encrypted"
    /\ tam' = [tam EXCEPT
                 !.stage = "read",
                 !.clean = CbcDecrypt(tam.cipher, IvBytes(16), keyExpansion(FipsKey))]
    /\ UNCHANGED <<otherVars, cipherVars, blk, bridgeVars>>

\* one bit of cipher block i is inverted
Tamper ==
    /\ tam.stage = "read"
    /\ tam' = [tam EXCEPT
                 !.stage = "tampered",
                 !.cipher = FlipBit(tam.cipher, 16 * tam.i + tam.pos, tam.bit)]
    /\ UNCHANGED <<otherVars, cipherVars, blk, bridgeVars>>

\* the CBC loop of decrypt on the altered cipher bytes
DecryptTampered ==
    /\ tam.stage = "tampered"
    /\ tam' = [tam EXCEPT
                 !.stage = "decrypted",
                 !.got = CbcDecrypt(tam.cipher, IvBytes(16), keyExpansion(FipsKey))]
    /\ UNCHANGED <<otherVars, cipherVars, blk, bridgeVars>>

NextTamper == DecryptIntact \/ Tamper \/ DecryptTampered

SpecTamper == InitTamper /\ [][NextTamper]_vars

\* block j of got is block j of want, but for block i, which differs, and
\* block i + 1, which differs in the inverted bit alone
PropagatesFrom(want, got) ==
    \A j \in 0..(TamperBlocks - 1) :
        IF j = tam.i THEN BlockAt(got, 16 * j) /= BlockAt(want, 16 * j)
        ELSE IF j = tam.i + 1
             THEN BlockAt(got, 16 * j)
                    = FlipBit(BlockAt(want, 16 * j), tam.pos, tam.bit)
        ELSE BlockAt(got, 16 * j) = BlockAt(want, 16 * j)

\* C3: with one bit of cipher block i inverted, the CBC-decrypted plaintext
\* equals the original plaintext in every block but i and i + 1; block i
\* differs from it, and block i + 1 differs from it in the inverted bit alone.
TamperPropagation ==
    tam.stage = "decrypted" => PropagatesFrom(tam.plain, tam.got)

\* C3, against what the CBC loop gives for the intact cipher bytes instead
\* of the plaintext that was encrypted: the same three statements.
TamperPropagationFromIntact ==
    tam.stage = "decrypted" => PropagatesFrom(tam.clean, tam.got)

\* the last bit of the last byte of cipher block 1 has been inverted and
\* the bytes decrypted
LastBitTampered ==
    /\ tam.stage = "decrypted"
    /\ tam.i = TamperBlocks - 2
    /\ tam.pos = 15
    /\ tam.bit = 7
    /\ tam.got /= tam.clean

(* ======================================================================= *)
(* The FFI bridge (native_ffi_bridge.cpp)                                  *)
(* ======================================================================= *)

(* ---------------- deriveKey ---------------- *)

\* (x << 1) | (x >> 7) stored into a uint8_t
RotateLeft(x) == ((x * 2) % 256) + (x \div 128)

\* One pass of the inner loop of deriveKey, for U[i]; s = [U, hash], with
\* s.U the bytes already rewritten.
\*   hash ^= U[i]; U[i] = rotl(U[i]); U[i] ^= (hash + iter) & 0xFF
deriveKeyMixByte(s, u, iter) ==
    [U |-> Append(s.U, Xor(RotateLeft(u), (Xor(s.hash, u) + iter) % 256)),
     hash |-> Xor(s.hash, u)]

\* for (i = 0; i < U.size(); i++): the passes for U[lo..hi] (1-based), in
\* order, halved as in keyExpansionLoop
RECURSIVE deriveKeyMixLoop(_, _, _, _, _)
deriveKeyMixLoop(s, U, iter, lo, hi) ==
    IF lo > hi THEN s
    ELSE IF lo = hi THEN deriveKeyMixByte(s, U[lo], iter)
    ELSE LET mid == (lo + hi) \div 2
             left == deriveKeyMixLoop(s, U, iter, lo, mid)
         IN  IF Len(left.U) >= mid
             THEN deriveKeyMixLoop(left, U, iter, mid + 1, hi)
             ELSE left

deriveKeyMix(U, iter) ==
    deriveKeyMixLoop([U |-> <<>>, hash |-> 0], U, iter, 1, Len(U)).U

\* result[i] ^= U[i], done for i < U.size() only
deriveKeyFoldByte(folded, result, U, i) ==
    Append(folded, IF i <= Len(U) THEN Xor(result[i], U[i]) ELSE result[i])

\* for (i = 0; i < keyLen && i < U.size(); i++): the bytes lo..hi (1-based)
\* of result after the loop, appended to `folded`
RECURSIVE deriveKeyFoldLoop(_, _, _, _, _)
deriveKeyFoldLoop(folded, result, U, lo, hi) ==
    IF lo > hi THEN folded
    ELSE IF lo = hi THEN deriveKeyFoldByte(folded, result, U, lo)
    ELSE LET mid == (lo + hi) \div 2
             left == deriveKeyFoldLoop(folded, result, U, lo, mid)
         IN  IF Len(left) >= mid
             THEN deriveKeyFoldLoop(left, result, U, mid + 1, hi)
             ELSE left

deriveKeyFold(result, U) == deriveKeyFoldLoop(<<>>, result, U, 1, Len(result))

\* one pass of the outer loop, given U as the inner loop leaves it
deriveKeyFolded(s, U) ==
    [U |-> U, result |-> deriveKeyFold(s.result, U), iter |-> s.iter + 1]

\* one pass of the outer loop; s = [U, result, iter]
deriveKeyIteration(s) == deriveKeyFolded(s, deriveKeyMix(s.U, s.iter))

\* for (iter = 0; iter < iterations; iter++), from s on
RECURSIVE deriveKeyIterations(_, _)
deriveKeyIterations(s, iterations) ==
    IF s.iter >= iterations THEN s.result
    ELSE deriveKeyIterations(deriveKeyIteration(s), iterations)

\* A variant of the cross-mixing pass that takes the two neighbours before
\* result[i] in place of the two after it.
deriveKeyBlendBytePreceding(result, i) ==
    [result EXCEPT ![i + 1] =
        Xor(result[i + 1],
            (At(result, (i + Len(result) - 1) % Len(result))
               + At(result, (i + Len(result) - 2) % Len(result))) % 256)]

\* result[i] ^= result[(i + 1) % size] + result[(i + 2) % size], in place
deriveKeyBlendByte(result, i) ==
    [result EXCEPT ![i + 1] =
        Xor(result[i + 1],
            (At(result, (i + 1) % Len(result))
               + At(result, (i + 2) % Len(result))) % 256)]

\* for (i = 0; i < result.size(); i++): the passes for i in lo..hi, in
\* order, halved as in keyExpansionLoop
RECURSIVE deriveKeyBlendLoop(_, _, _)
deriveKeyBlendLoop(result, lo, hi) ==
    IF lo > hi THEN result
    ELSE IF lo = hi THEN deriveKeyBlendByte(result, lo)
    ELSE LET mid == (lo + hi) \div 2
             left == deriveKeyBlendLoop(result, lo, mid)
         IN  IF Len(left) > mid THEN deriveKeyBlendLoop(left, mid + 1, hi)
             ELSE left

deriveKey(password, salt, iterations, keyLen) ==
    deriveKeyBlendLoop(
        deriveKeyIterations([U |-> password \o salt \o <<0, 0, 0, 1>>,
                             result |-> Fill(keyLen, 0),
                             iter |-> 0],
                            iterations),
        0, keyLen - 1)

(* ---------------- initAES ---------------- *)

\* "com.example.last_final", the package name
packageName ==
    <<99, 111, 109, 46, 101, 120, 97, 109, 112, 108, 101, 46,
      108, 97, 115, 116, 95, 102, 105, 110, 97, 108>>

\* {0x53, 0x65, 0x63, 0x75, 0x72, 0x65, 0x56, 0x61, 0x75, 0x6c, 0x74}
fixed == <<83, 101, 99, 117, 114, 101, 86, 97, 117, 108, 116>>

\* while (salt.size() < 16) salt.push_back(salt.size() & 0xFF)
RECURSIVE SaltFilled(_)
SaltFilled(salt) ==
    IF Len(salt) >= 16 THEN salt ELSE SaltFilled(Append(salt, Len(salt) % 256))

\* the salt of initAES: salt.resize(16)
Salt == SubSeq(SaltFilled(packageName \o fixed), 1, 16)

\* initAES asks deriveKey for 100000 iterations.  The model runs
\* Iterations of them: every pass of the loop is the same code, and the
\* properties checked here speak of lengths and of equal inputs, not of the
\* values of the bytes.
Iterations == 3

\* std::vector<uint8_t> key(derived.begin(), derived.begin() + 32)
KeyPart(derived) == SubSeq(derived, 1, 32)

\* A variant of IvPart that starts one byte early; the derivation property
\* tells it from IvPart.
IvPartFromKeyEnd(derived) == SubSeq(derived, 32, 47)

\* std::vector<uint8_t> iv(derived.begin() + 32, derived.begin() + 48)
IvPart(derived) == SubSeq(derived, 33, 48)

\* a vector of n zero bytes after istream::read of n bytes from a file
\* holding `content`
ReadInto(n, content) ==
    IF Len(content) >= n THEN SubSeq(content, 1, n)
    ELSE content \o Fill(n - Len(content), 0)

\* for (i ...) if (key[i] != 0) { keysValid = true; break; }
keysValid(key) == \E i \in 1..Len(key) : key[i] /= 0

\* The statics the bridge's functions work on are
\* [g_aes, g_keysInitialized, files], and what initAES did is `did`.

\* g_aes = new SimpleAES(key, iv), by way `did`: g_aes is assigned only if
\* the constructor has not thrown
NewCipher(st, r, did) ==
    IF r.err /= <<>> THEN [st EXCEPT !.did = "threw"]
    ELSE [st EXCEPT !.g_aes = r.val, !.did = did,
                    !.g_keysInitialized = (did = "derived") \/ @]

\* initAES with no password set: the legacy key files
initAESFromFiles(st) ==
    IF /\ st.files.key /= <<>>
       /\ st.files.iv /= <<>>
       /\ keysValid(ReadInto(32, st.files.key))
    THEN NewCipher(st,
                   SimpleAES(ReadInto(32, st.files.key), ReadInto(16, st.files.iv)),
                   "legacy")
    ELSE [st EXCEPT !.did = "no keys"]

\* initAES with a password set: the derived key and IV
initAESDerived(st, password, derived) ==
    NewCipher(st, SimpleAES(KeyPart(derived), IvPart(derived)), "derived")

initAES(st, password) ==
    IF st.g_aes /= NoObject THEN [st EXCEPT !.did = "kept"]
    ELSE IF password = <<>> THEN initAESFromFiles(st)
    ELSE initAESDerived(st, password, deriveKey(password, Salt, Iterations, 48))

(* ---------------- the exported functions ---------------- *)

\* A const char* argument or return value is [null, str]: the null pointer,
\* or the characters before the terminating NUL.
NullPtr == [null |-> TRUE, str |-> <<>>]

Chars(str) == [null |-> FALSE, str |-> str]

\* the characters of `bytes` before its first zero byte: what a buffer
\* holding bytes and a terminator is as a C string
RECURSIVE UpToNul(_, _)
UpToNul(bytes, n) ==
    IF n > Len(bytes) \/ bytes[n] = 0 THEN SubSeq(bytes, 1, n - 1)
    ELSE UpToNul(bytes, n + 1)

CString(bytes) == Chars(UpToNul(bytes, 1))

\* the statics initAES works on, before it has done anything
Statics ==
    [g_aes |-> g_aes, g_keysInitialized |-> g_keysInitialized,
     files |-> files, did |-> "none"]

\* What cpp_decrypt_aes would hand back if an exception of the method did
\* not reach the catch that returns nullptr.
ReturnedUncaught(r, mallocOk) ==
    IF ~mallocOk THEN NullPtr ELSE CString(r.val)

\* What cpp_encrypt_aes and cpp_decrypt_aes return once the method has
\* given r: nullptr if it has thrown or malloc has returned null, else the
\* copy of the string.
Returned(r, mallocOk) ==
    IF r.err /= <<>> \/ ~mallocOk THEN NullPtr ELSE CString(r.val)

\* What the two functions do after initAES, which has left the statics st:
\* the method is called on g_aes unless initAES has thrown or left g_aes
\* null.  [g_aes, out]: the instance after the call and the pointer returned.
NotInitialized(st) == st.did = "threw" \/ st.g_aes = NoObject

AfterMethod(r, mallocOk) == [g_aes |-> r.self, out |-> Returned(r, mallocOk)]

EncryptWith(st, plain, mallocOk) ==
    IF NotInitialized(st) THEN [g_aes |-> st.g_aes, out |-> NullPtr]
    ELSE AfterMethod(encrypt(st.g_aes, plain), mallocOk)

DecryptWith(st, cipher, mallocOk) ==
    IF NotInitialized(st) THEN [g_aes |-> st.g_aes, out |-> NullPtr]
    ELSE AfterMethod(decrypt(st.g_aes, cipher), mallocOk)

\* A variant of cpp_set_user_password that stores the password and leaves
\* the cipher built for the one before in place.
cpp_set_user_passwordKeepsCipher(password) ==
    /\ IF password.null
       THEN UNCHANGED <<g_userPassword, g_keysInitialized>>
       ELSE /\ g_userPassword' = password.str
            /\ g_keysInitialized' = FALSE
    /\ ret' = [op |-> "cpp_set_user_password", arg |-> password,
               out |-> NullPtr, did |-> "none"]
    /\ UNCHANGED <<otherVars, g_aes, files, cipherVars, blk, tam>>

\* void cpp_set_user_password(const char* password)
cpp_set_user_password(password) ==
    /\ IF password.null
       THEN UNCHANGED <<g_aes, g_userPassword, g_keysInitialized>>
       ELSE /\ g_userPassword' = password.str
            /\ g_keysInitialized' = FALSE
            /\ g_aes' = NoObject
    /\ ret' = [op |-> "cpp_set_user_password", arg |-> password,
               out |-> NullPtr, did |-> "none"]
    /\ UNCHANGED <<otherVars, files, cipherVars, blk, tam>>

\* const char* cpp_encrypt_aes(const char* plain); malloc returns a buffer
\* or null
cpp_encrypt_aes(plain, mallocOk) ==
    /\ IF plain.null
       THEN /\ ret' = [op |-> "cpp_encrypt_aes", arg |-> plain,
                       out |-> NullPtr, did |-> "none"]
            /\ UNCHANGED <<g_aes, g_keysInitialized>>
       ELSE \E st \in {initAES(Statics, g_userPassword)} :
            \E after \in {EncryptWith(st, plain.str, mallocOk)} :
                /\ g_aes' = after.g_aes
                /\ g_keysInitialized' = st.g_keysInitialized
                /\ ret' = [op |-> "cpp_encrypt_aes", arg |-> plain,
                           out |-> after.out, did |-> st.did]
    /\ UNCHANGED <<otherVars, g_userPassword, files, cipherVars, blk, tam>>

\* const char* cpp_decrypt_aes(const char* cipher)
cpp_decrypt_aes(cipher, mallocOk) ==
    /\ IF cipher.null
       THEN /\ ret' = [op |-> "cpp_decrypt_aes", arg |-> cipher,
                       out |-> NullPtr, did |-> "none"]
            /\ UNCHANGED <<g_aes, g_keysInitialized>>
       ELSE \E st \in {initAES(Statics, g_userPassword)} :
            \E after \in {DecryptWith(st, cipher.str, mallocOk)} :
                /\ g_aes' = after.g_aes
                /\ g_keysInitialized' = st.g_keysInitialized
                /\ ret' = [op |-> "cpp_decrypt_aes", arg |-> cipher,
                           out |-> after.out, did |-> st.did]
    /\ UNCHANGED <<otherVars, g_userPassword, files, cipherVars, blk, tam>>

\* the statics after delete g_aes, g_aes = nullptr and the two std::remove
Removed ==
    [g_aes |-> NoObject, g_keysInitialized |-> g_keysInitialized,
     files |-> NoFiles, did |-> "none"]

\* void cpp_reset_keys()
cpp_reset_keys ==
    /\ \E st \in {initAES(Removed, g_userPassword)} :
           /\ g_aes' = st.g_aes
           /\ g_keysInitialized' = st.g_keysInitialized
           /\ files' = st.files
           /\ ret' = [op |-> "cpp_reset_keys", arg |-> NullPtr,
                      out |-> NullPtr, did |-> st.did]
    /\ UNCHANGED <<otherVars, g_userPassword, cipherVars, blk, tam>>

\* A variant of cpp_clear_keys that forgets the password as well.
cpp_clear_keysForgetsPassword ==
    /\ g_aes' = Removed.g_aes
    /\ files' = Removed.files
    /\ g_userPassword' = <<>>
    /\ ret' = [op |-> "cpp_clear_keys", arg |-> NullPtr,
               out |-> NullPtr, did |-> "none"]
    /\ UNCHANGED <<otherVars, g_keysInitialized, cipherVars, blk, tam>>

\* void cpp_clear_keys()
cpp_clear_keys ==
    /\ g_aes' = Removed.g_aes
    /\ files' = Removed.files
    /\ ret' = [op |-> "cpp_clear_keys", arg |-> NullPtr,
               out |-> NullPtr, did |-> "none"]
    /\ UNCHANGED <<otherVars, g_userPassword, g_keysInitialized, cipherVars, blk, tam>>

\* void cpp_free(const char* ptr), on the pointer last returned
cpp_free ==
    /\ ret.op \in {"cpp_encrypt_aes", "cpp_decrypt_aes"}
    /\ ret' = [op |-> "cpp_free", arg |-> ret.out, out |-> NullPtr,
               did |-> "none"]
    /\ UNCHANGED <<otherVars, g_aes, g_userPassword, g_keysInitialized, files,
                   cipherVars, blk, tam>>

(* ---------------- the callers of the bridge ---------------- *)

\* "pw" and "hunter2"
Passwords == {<<112, 119>>, <<104, 117, 110, 116, 101, 114, 50>>}

PasswordArgs == {NullPtr, Chars(<<>>)} \cup {Chars(p) : p \in Passwords}

PlainArgs == {NullPtr, Chars(<<>>), Chars(Text(1)), Chars(Text(16))}

\* what deriveKey gives initAES for a password
Derived(password) == deriveKey(password, Salt, Iterations, 48)

\* a token that decrypts to "AB" under the key and IV derived from "pw"
ForgedForPw ==
    ForgeToken(PlainBlock(2, 14), KeyPart(Derived(<<112, 119>>)),
               IvPart(Derived(<<112, 119>>)))

\* the tokens handed to cpp_decrypt_aes: null, the empty one, "QUJD", the
\* forged one, and the token cpp_encrypt_aes has just returned
TokenArgs ==
    {NullPtr, Chars(<<>>), Chars(<<81, 85, 74, 68>>), Chars(ForgedForPw)}
      \cup (IF ret.op = "cpp_encrypt_aes" THEN {ret.out} ELSE {})

\* the key files a legacy installation has left: none, a key and an IV, a
\* key of zero bytes, and a key file cut short
LegacyFiles ==
    {NoFiles,
     [key |-> KeyBytes(32), iv |-> IvBytes(16)],
     [key |-> Fill(32, 0), iv |-> IvBytes(16)],
     [key |-> IvBytes(8), iv |-> IvBytes(16)]}

InitBridge ==
    /\ CipherIdle
    /\ blk = NoBlock
    /\ tam = NoTamper
    /\ g_aes = NoObject
    /\ g_userPassword = <<>>
    /\ g_keysInitialized = FALSE
    /\ files \in LegacyFiles
    /\ ret = NoReturn
    /\ OthersIdle

NextBridge ==
    \/ \E password \in PasswordArgs : cpp_set_user_password(password)
    \/ \E plain \in PlainArgs, mallocOk \in BOOLEAN :
           cpp_encrypt_aes(plain, mallocOk)
    \/ \E cipher \in TokenArgs, mallocOk \in BOOLEAN :
           cpp_decrypt_aes(cipher, mallocOk)
    \/ cpp_reset_keys
    \/ cpp_clear_keys
    \/ cpp_free

SpecBridge == InitBridge /\ [][NextBridge]_vars

\* C10: deriveKey with keyLen 48 returns 48 bytes; the cipher initAES
\* builds for a password has bytes 0..31 of them as its key and bytes
\* 32..47 as its IV, whenever it was built; and the constructor never throws
\* on what initAES hands it.
DerivedMaterial ==
    /\ \A p \in Passwords : Len(Derived(p)) = 48
    /\ ret.did /= "threw"
    /\ ret.did = "derived" => (g_aes /= NoObject /\ g_keysInitialized)
    /\ (g_aes /= NoObject /\ g_userPassword /= <<>>)
         => /\ g_aes.key = SubSeq(Derived(g_userPassword), 1, 32)
            /\ g_aes.iv = SubSeq(Derived(g_userPassword), 33, 48)

\* cpp_encrypt_aes has derived the cipher from "hunter2" and returned a token
DerivedCipherUsed ==
    /\ ret.op = "cpp_encrypt_aes"
    /\ ret.did = "derived"
    /\ ~ret.out.null
    /\ ret.out.str /= <<>>
    /\ g_userPassword = <<104, 117, 110, 116, 101, 114, 50>>

(* ---------------- failures at the bridge ---------------- *)

\* cpp_decrypt_aes has just been given a token on which decrypt of the
\* instance throws (bad decoded length or bad padding)
FailedDecryptStep ==
    /\ ret'.op = "cpp_decrypt_aes"
    /\ ~ret'.arg.null
    /\ g_aes' /= NoObject
    /\ decrypt(g_aes', ret'.arg.str).err /= <<>>

\* the calls that may follow, with a malloc that succeeds
FollowingPlain == {Text(1), Text(16)}

FollowingTokens == {<<81, 85, 74, 68>>, ForgedForPw}

\* what a call returns from the statics st under the password
EncryptAnswer(st, password, plain) ==
    EncryptWith(initAES(st, password), plain, TRUE).out

DecryptAnswer(st, password, cipher) ==
    DecryptWith(initAES(st, password), cipher, TRUE).out

\* C11: a cpp_decrypt_aes whose token fails decryption returns nullptr (the
\* exception is caught), leaves the password, the key files and an existing
\* cipher instance as they were (an instance initAES had to build first is
\* the one it builds for any call), and the calls that follow answer as
\* they would have answered before it.
FailedDecryptRecoverable ==
    [][FailedDecryptStep
         => /\ ret'.out = NullPtr
            /\ g_userPassword' = g_userPassword
            /\ files' = files
            /\ g_aes /= NoObject => g_aes' = g_aes
            /\ g_aes' = initAES(Statics, g_userPassword).g_aes
            /\ \A plain \in FollowingPlain :
                   EncryptAnswer(Statics', g_userPassword', plain)
                     = EncryptAnswer(Statics, g_userPassword, plain)
            /\ \A cipher \in FollowingTokens :
                   DecryptAnswer(Statics', g_userPassword', cipher)
                     = DecryptAnswer(Statics, g_userPassword, cipher)]_vars

\* a token cpp_encrypt_aes returned has been refused for its padding, on an
\* instance that exists and with a password set
BridgeDecryptFailed ==
    /\ ret.op = "cpp_decrypt_aes"
    /\ ~ret.arg.null
    /\ ret.out = NullPtr
    /\ g_aes /= NoObject
    /\ g_userPassword /= <<>>
    /\ Len(Decoded(ret.arg.str)) = 16
    /\ decrypt(g_aes, ret.arg.str).err \in {InvalidPadding, InvalidPaddingBytes}

\* "QUJD", three decoded bytes, has been refused for its length
BridgeBadLengthFailed ==
    /\ ret.op = "cpp_decrypt_aes"
    /\ ret.arg = Chars(<<81, 85, 74, 68>>)
    /\ ret.out = NullPtr
    /\ g_aes /= NoObject
    /\ decrypt(g_aes, ret.arg.str).err = InvalidLength

(* ======================================================================= *)
(* The encryption strategies                                               *)
(* ======================================================================= *)

\* A strategy object is [kind, key, iv, initialized]: kind names its class;
\* key is the XOR key or the AES key, iv the AES IV; initialized is the
\* flag of the AES strategy.  A call on a strategy gives [self, err, val].

(* ---------------- XOREncryptionStrategy ---------------- *)

\* "DefaultKey"
DefaultKey == <<68, 101, 102, 97, 117, 108, 116, 75, 101, 121>>

\* XOREncryptionStrategy(xorKey): an empty key is replaced
XOREncryptionStrategy(xorKey) ==
    [kind |-> "XOR", key |-> IF xorKey = <<>> THEN DefaultKey ELSE xorKey,
     iv |-> <<>>, initialized |-> FALSE]

\* for (i = 0; i < input.length(); ++i) result += input[i] ^ key[i % keyLen]
RECURSIVE xorOperationLoop(_, _, _)
xorOperationLoop(result, key, input) ==
    IF Len(result) >= Len(input) THEN result
    ELSE xorOperationLoop(
             Append(result, Xor(input[Len(result) + 1],
                                key[(Len(result) % Len(key)) + 1])),
             key, input)

xorOperation(self, input) == xorOperationLoop(<<>>, self.key, input)

\* "0123456789abcdef", the digits std::hex writes
HexDigits ==
    <<48, 49, 50, 51, 52, 53, 54, 55, 56, 57, 97, 98, 99, 100, 101, 102>>

\* A variant of the hex output without std::setw(2): a byte below 16 is
\* written as one digit.
HexOfByteNoWidth(c) ==
    IF c < 16 THEN <<HexDigits[c + 1]>>
    ELSE <<HexDigits[(c \div 16) + 1], HexDigits[(c % 16) + 1]>>

\* ss << std::hex << std::setw(2) << std::setfill('0') << static_cast<int>(c)
HexOfByte(c) == <<HexDigits[(c \div 16) + 1], HexDigits[(c % 16) + 1]>>

\* for (unsigned char c : xored) ss << ...
RECURSIVE HexOfBytes(_, _)
HexOfBytes(ss, xored) ==
    IF xored = <<>> THEN ss
    ELSE HexOfBytes(ss \o HexOfByte(Head(xored)), Tail(xored))

XOR_encrypt(self, plainText) ==
    IF plainText = <<>> THEN Returns(<<>>)
    ELSE Returns(HexOfBytes(<<>>, xorOperation(self, plainText)))

\* the value of a character as a digit of base 16, or -1
HexValue(c) ==
    IF c \in 48..57 THEN c - 48
    ELSE IF c \in 97..102 THEN c - 87
    ELSE IF c \in 65..70 THEN c - 55
    ELSE -1

\* isspace in the "C" locale
IsSpace(c) == c \in 9..13 \/ c = 32

\* '+' or '-'
IsSign(c) == c = 43 \/ c = 45

NoDigits == Throws("stoi")

\* std::stoi(byteString, nullptr, 16) on the C string of at most two
\* characters: white space is skipped, a sign is taken, the digits of base 16
\* are read up to the first character that is none; no digit read throws
\* std::invalid_argument.
stoi16(byteString) ==
    IF byteString = <<>> THEN NoDigits
    ELSE IF HexValue(byteString[1]) >= 0
         THEN IF Len(byteString) > 1 /\ HexValue(byteString[2]) >= 0
              THEN Returns(16 * HexValue(byteString[1]) + HexValue(byteString[2]))
              ELSE Returns(HexValue(byteString[1]))
    ELSE IF Len(byteString) > 1 /\ HexValue(byteString[2]) >= 0
              /\ (IsSpace(byteString[1]) \/ IsSign(byteString[1]))
         THEN Returns(IF byteString[1] = 45 THEN 0 - HexValue(byteString[2])
                      ELSE HexValue(byteString[2]))
    ELSE NoDigits

\* static_cast<char>(int), as the byte it holds
CharOf(n) == (n + 256) % 256

\* cipherText.substr(i, 2), i zero-based
Substr2(cipherText, i) ==
    SubSeq(cipherText, i + 1,
           IF i + 2 <= Len(cipherText) THEN i + 2 ELSE Len(cipherText))

\* one pass of the loop of decrypt on [err, val, i]
XOR_decryptStep(s, parsed) ==
    IF parsed.err /= <<>> THEN [err |-> parsed.err, val |-> <<>>, i |-> s.i]
    ELSE [err |-> <<>>, val |-> Append(s.val, CharOf(parsed.val)), i |-> s.i + 2]

\* for (i = 0; i < cipherText.length(); i += 2)
RECURSIVE XOR_decryptLoop(_, _)
XOR_decryptLoop(s, cipherText) ==
    IF s.err /= <<>> \/ s.i >= Len(cipherText) THEN s
    ELSE XOR_decryptLoop(XOR_decryptStep(s, stoi16(Substr2(cipherText, s.i))),
                         cipherText)

\* the exception of std::stoi leaves decrypt; else the bytes are xored
XOR_decryptEnd(self, s) ==
    IF s.err /= <<>> THEN [err |-> s.err, val |-> <<>>]
    ELSE Returns(xorOperation(self, s.val))

XOR_decrypt(self, cipherText) ==
    IF cipherText = <<>> THEN Returns(<<>>)
    ELSE XOR_decryptEnd(self, XOR_decryptLoop([err |-> <<>>, val |-> <<>>, i |-> 0],
                                              cipherText))

\* setKey(newKey): an empty key is ignored
XOR_setKey(self, newKey) ==
    IF newKey /= <<>> THEN [self EXCEPT !.key = newKey] ELSE self

(* ---------------- NoEncryptionStrategy ---------------- *)

NoEncryptionStrategy ==
    [kind |-> "None", key |-> <<>>, iv |-> <<>>, initialized |-> FALSE]

None_encrypt(self, plainText) == Returns(plainText)

None_decrypt(self, cipherText) == Returns(cipherText)

(* ---------------- XOREncryptionStrategy and its callers ---------------- *)

\* the longest text handed to the XOR strategy
MaxXorLen == 12

\* "k", "key", "TestKey123", a key with a byte above 127, and the empty key
XorKeys ==
    {<<>>, <<107>>, <<107, 101, 121>>,
     <<84, 101, 115, 116, 75, 101, 121, 49, 50, 51>>, <<200, 7>>}

\* the empty string, "A", "key", "!@#$%^", a NUL among letters, the UTF-8
\* bytes of U+4E16 and of U+1F510, "DefaultKey", and MaxXorLen times 'x'
XorTexts ==
    {<<>>, <<65>>, <<107, 101, 121>>, <<33, 64, 35, 36, 37, 94>>,
     <<72, 0, 105>>, <<228, 184, 150>>, <<240, 159, 148, 144>>,
     DefaultKey, Fill(MaxXorLen, 120)}

\* tokens that no encrypt has made: "zz", "4", "-f", " 7", "0x", "4G6"
XorJunk ==
    {<<122, 122>>, <<52>>, <<45, 102>>, <<32, 55>>, <<48, 120>>,
     <<52, 71, 54>>}

InitXor ==
    /\ CipherIdle
    /\ blk = NoBlock
    /\ tam = NoTamper
    /\ BridgeIdle
    /\ strategy = NoStrategy
    /\ keyFiles = NoFiles
    /\ cx = NoContextCall
    /\ cod = NoCodec
    /\ UnitsIdle
    /\ xr \in {[op |-> "XOREncryptionStrategy", self |-> XOREncryptionStrategy(k),
                arg |-> k, err |-> <<>>, val |-> <<>>, plain |-> <<>>] :
                   k \in XorKeys}

xorRest ==
    <<cipherVars, blk, tam, bridgeVars, strategy, keyFiles, cx, cod, unitVars>>

\* xorStrategy.encrypt(plainText)
XorEncrypt(plainText) ==
    /\ \E r \in {XOR_encrypt(xr.self, plainText)} :
           xr' = [op |-> "encrypt", self |-> xr.self, arg |-> plainText,
                  err |-> r.err, val |-> r.val, plain |-> plainText]
    /\ UNCHANGED xorRest

\* xorStrategy.decrypt(cipherText), of what encrypt has returned or of junk
XorDecrypt(cipherText) ==
    /\ \E r \in {XOR_decrypt(xr.self, cipherText)} :
           xr' = [op |-> "decrypt", self |-> xr.self, arg |-> cipherText,
                  err |-> r.err, val |-> r.val,
                  plain |-> IF xr.op = "encrypt" /\ cipherText = xr.val
                            THEN xr.plain ELSE <<>>]
    /\ UNCHANGED xorRest

\* xorStrategy.setKey(newKey)
XorSetKey(newKey) ==
    /\ xr' = [op |-> "setKey", self |-> XOR_setKey(xr.self, newKey),
              arg |-> newKey, err |-> <<>>, val |-> <<>>, plain |-> <<>>]
    /\ UNCHANGED xorRest

NextXor ==
    \/ \E newKey \in XorKeys : XorSetKey(newKey)
    \/ \E plainText \in XorTexts : XorEncrypt(plainText)
    \/ \E cipherText \in XorJunk
             \cup (IF xr.op = "encrypt" THEN {xr.val} ELSE {}) :
           XorDecrypt(cipherText)

SpecXor == InitXor /\ [][NextXor]_vars

\* every character is one of "0123456789abcdef"
IsHex(str) == \A i \in 1..Len(str) : \E d \in 1..16 : str[i] = HexDigits[d]

\* C13: under every key, encrypt of the empty string is the empty string;
\* encrypt of a non-empty x is 2 * len(x) hexadecimal characters, so is not
\* x; and decrypt of what encrypt has returned for x is x.
XorRoundTrip ==
    /\ (xr.op = "encrypt" /\ xr.arg = <<>>) => xr.val = <<>>
    /\ (xr.op = "encrypt" /\ xr.arg /= <<>>)
         => /\ xr.err = <<>>
            /\ Len(xr.val) = 2 * Len(xr.arg)
            /\ IsHex(xr.val)
            /\ xr.val /= xr.arg
    /\ (xr.op = "decrypt" /\ xr.plain /= <<>>)
         => (xr.err = <<>> /\ xr.val = xr.plain)
    /\ \A x \in XorTexts :
           XOR_decrypt(xr.self, XOR_encrypt(xr.self, x).val) = Returns(x)

\* "key" has come back from the token "000000" that the key "key" gave it
XorZerosDecrypted ==
    /\ xr.op = "decrypt"
    /\ xr.self.key = <<107, 101, 121>>
    /\ xr.arg = <<48, 48, 48, 48, 48, 48>>
    /\ xr.plain = <<107, 101, 121>>
    /\ xr.val = xr.plain

(* ---------------- AESEncryptionStrategy ---------------- *)

\* The strategy leaves the cipher to the Crypto++ library:
\* CBC_Mode<AES> with a 32-byte key, the filter's PKCS #7 padding, and
\* Base64Encoder/Base64Decoder.  The library's block transform is AES-256 as
\* FIPS-197 gives it: rounds 1..13 with SubBytes, ShiftRows, MixColumns and
\* the round key, and round 14 without MixColumns.
LibraryRound(s, roundKeys) ==
    [state |-> AddRoundKey(MixColumns(ShiftRows(SubBytes(s.state))),
                           roundKeys, s.round * 4),
     round |-> s.round + 1]

RECURSIVE LibraryRounds(_, _)
LibraryRounds(s, roundKeys) ==
    IF s.round > 13 THEN s.state
    ELSE LibraryRounds(LibraryRound(s, roundKeys), roundKeys)

LibraryEncryptBlock(in, roundKeys) ==
    AddRoundKey(
        ShiftRows(SubBytes(
            LibraryRounds([state |-> AddRoundKey(in, roundKeys, 0), round |-> 1],
                          roundKeys))),
        roundKeys, 56)

LibraryInvRound(s, roundKeys) ==
    [state |-> InvSubBytes(InvShiftRows(InvMixColumns(
                   AddRoundKey(s.state, roundKeys, s.round * 4)))),
     round |-> s.round - 1]

RECURSIVE LibraryInvRounds(_, _)
LibraryInvRounds(s, roundKeys) ==
    IF s.round < 1 THEN s.state
    ELSE LibraryInvRounds(LibraryInvRound(s, roundKeys), roundKeys)

LibraryDecryptBlock(in, roundKeys) ==
    AddRoundKey(
        LibraryInvRounds(
            [state |-> InvSubBytes(InvShiftRows(AddRoundKey(in, roundKeys, 56))),
             round |-> 13],
            roundKeys),
        roundKeys, 0)

\* CBC_Mode<AES>::Encryption over whole blocks
RECURSIVE LibraryCbcEncrypt(_, _, _)
LibraryCbcEncryptFrom(block, rest, roundKeys) ==
    block \o LibraryCbcEncrypt(rest, block, roundKeys)

LibraryCbcEncrypt(plainBytes, previousBlock, roundKeys) ==
    IF plainBytes = <<>> THEN <<>>
    ELSE LibraryCbcEncryptFrom(
             LibraryEncryptBlock(XorBlock(BlockAt(plainBytes, 0), previousBlock),
                                 roundKeys),
             SubSeq(plainBytes, 17, Len(plainBytes)), roundKeys)

\* CBC_Mode<AES>::Decryption over whole blocks
RECURSIVE LibraryCbcDecrypt(_, _, _)
LibraryCbcDecrypt(cipherBytes, previousBlock, roundKeys) ==
    IF cipherBytes = <<>> THEN <<>>
    ELSE XorBlock(LibraryDecryptBlock(BlockAt(cipherBytes, 0), roundKeys),
                  previousBlock)
           \o LibraryCbcDecrypt(SubSeq(cipherBytes, 17, Len(cipherBytes)),
                                BlockAt(cipherBytes, 0), roundKeys)

\* Base64Decoder passes over every character outside the alphabet
RECURSIVE LibraryBase64Symbols(_)
LibraryBase64Symbols(str) ==
    IF str = <<>> THEN <<>>
    ELSE IF T[Head(str) + 1] = -1 THEN LibraryBase64Symbols(Tail(str))
    ELSE <<Head(str)>> \o LibraryBase64Symbols(Tail(str))

\* the filter on decryption: whole blocks only, and a PKCS #7 padding
LibraryUnpad(r) ==
    IF r.err /= <<>> THEN Throws("StreamTransformationFilter: invalid PKCS #7 block padding found")
    ELSE r

LibraryDecrypt(cipherBytes, key, iv) ==
    IF cipherBytes = <<>> \/ Len(cipherBytes) % 16 /= 0
    THEN Throws("StreamTransformationFilter: ciphertext length is not a multiple of block size")
    ELSE LibraryUnpad(pkcs7Unpad(LibraryCbcDecrypt(cipherBytes, iv,
                                                   keyExpansion(key))))

\* AESEncryptionStrategy(keyPath, ivPath): key(32) and iv(16) are allocated
\* and not written; nothing reads them before initialize has written them,
\* and the model holds them empty until then.
AESEncryptionStrategy ==
    [kind |-> "AES", key |-> <<>>, iv |-> <<>>, initialized |-> FALSE]

\* loadKeysFromFile: 32 and 16 bytes have to be there
loadKeysFromFile(fs) == Len(fs.key) >= 32 /\ Len(fs.iv) >= 16

\* initialize() gives [self, keyFiles, err]; fresh is what the random pool
\* generates, writable whether the two files can be opened for writing
AES_initialize(self, fs, fresh, writable) ==
    IF self.initialized THEN [self |-> self, keyFiles |-> fs, err |-> <<>>]
    ELSE IF loadKeysFromFile(fs)
         THEN [self |-> [self EXCEPT !.key = SubSeq(fs.key, 1, 32),
                                     !.iv = SubSeq(fs.iv, 1, 16),
                                     !.initialized = TRUE],
               keyFiles |-> fs, err |-> <<>>]
    ELSE IF ~writable
         THEN [self |-> [self EXCEPT !.key = fresh.key, !.iv = fresh.iv],
               keyFiles |-> fs, err |-> <<"Failed to save encryption keys">>]
    ELSE [self |-> [self EXCEPT !.key = fresh.key, !.iv = fresh.iv,
                                !.initialized = TRUE],
          keyFiles |-> fresh, err |-> <<>>]

NotInitializedError ==
    Throws("AES encryption strategy not initialized. Call initialize() first.")

\* catch (const Exception& e) { throw std::runtime_error("AES decryption failed: " + e.what()) }
AES_decryptCaught(r) ==
    IF r.err /= <<>>
    THEN [err |-> <<"AES decryption failed: ">> \o r.err, val |-> <<>>]
    ELSE r

AES_encrypt(self, plainText) ==
    IF ~self.initialized THEN NotInitializedError
    ELSE IF plainText = <<>> THEN Returns(<<>>)
    ELSE Returns(base64Encode(LibraryCbcEncrypt(pkcs7Pad(plainText, 16), self.iv,
                                                keyExpansion(self.key))))

AES_decrypt(self, cipherText) ==
    IF ~self.initialized THEN NotInitializedError
    ELSE IF cipherText = <<>> THEN Returns(<<>>)
    ELSE AES_decryptCaught(
             LibraryDecrypt(base64Decode(LibraryBase64Symbols(cipherText)),
                            self.key, self.iv))

(* ---------------- IEncryptionStrategy ---------------- *)

\* virtual bool requiresInitialization() const
requiresInitialization(self) == self.kind = "AES"

\* how a call ends: [type, err, val]; type is the class of the exception
\* thrown, "" when the call has returned
Returned0(r) == [type |-> "", err |-> <<>>, val |-> r.val]

\* EncryptionException(message): a std::runtime_error
EncryptionException(message) ==
    [type |-> "EncryptionException",
     err |-> <<"Encryption Error: ">> \o message, val |-> <<>>]

InvalidArgument(message) ==
    [type |-> "std::invalid_argument", err |-> <<message>>, val |-> <<>>]

\* the classes derived from std::runtime_error
RuntimeErrors == {"EncryptionException", "std::runtime_error"}

\* IEncryptionStrategy::validate(), which none of the three classes overrides
validate(self) ==
    IF requiresInitialization(self)
    THEN EncryptionException(<<"Strategy requires initialization before use">>)
    ELSE Returned0(Returns(<<>>))

\* strategy->encrypt(plainText): the call is virtual
strategy_encrypt(self, plainText) ==
    CASE self.kind = "AES" -> AES_encrypt(self, plainText)
      [] self.kind = "XOR" -> XOR_encrypt(self, plainText)
      [] OTHER -> None_encrypt(self, plainText)

strategy_decrypt(self, cipherText) ==
    CASE self.kind = "AES" -> AES_decrypt(self, cipherText)
      [] self.kind = "XOR" -> XOR_decrypt(self, cipherText)
      [] OTHER -> None_decrypt(self, cipherText)

(* ---------------- EncryptionContext ---------------- *)

\* The context is the class as EncryptionContext.h defines it in full:
\* that is what strategy_pattern_demo.cpp and test_strategy_pattern.cpp
\* include.

\* what setStrategy does to a strategy before it takes it: [self, keyFiles, err]
Initialized(newStrategy, fs, fresh, writable) ==
    IF requiresInitialization(newStrategy)
    THEN AES_initialize(newStrategy, fs, fresh, writable)
    ELSE [self |-> newStrategy, keyFiles |-> fs, err |-> <<>>]

\* A variant of setStrategy that takes a strategy only while the context
\* holds none.
setStrategyOnce(held, newStrategy, fs, fresh, writable) ==
    IF newStrategy = NoStrategy
    THEN [strategy |-> held, keyFiles |-> fs,
          end |-> InvalidArgument("Strategy cannot be null")]
    ELSE [strategy |-> IF held = NoStrategy THEN newStrategy ELSE held,
          keyFiles |-> fs, end |-> Returned0(Returns(<<>>))]

\* what setStrategy leaves once newStrategy has been initialized as init says
setStrategyTake(held, init) ==
    IF init.err /= <<>>
    THEN [strategy |-> held, keyFiles |-> init.keyFiles,
          end |-> [type |-> "std::runtime_error", err |-> init.err,
                   val |-> <<>>]]
    ELSE [strategy |-> init.self, keyFiles |-> init.keyFiles,
          end |-> Returned0(Returns(<<>>))]

\* void setStrategy(std::unique_ptr<IEncryptionStrategy> newStrategy) on a
\* context holding `held`: [strategy, keyFiles, end]
setStrategy(held, newStrategy, fs, fresh, writable) ==
    IF newStrategy = NoStrategy
    THEN [strategy |-> held, keyFiles |-> fs,
          end |-> InvalidArgument("Strategy cannot be null")]
    ELSE setStrategyTake(held, Initialized(newStrategy, fs, fresh, writable))

\* bool hasStrategy() const
hasStrategy(held) == held /= NoStrategy

\* catch (const std::exception& e) { throw EncryptionException(prefix + e.what()) }
Rethrown(prefix, r) ==
    IF r.err /= <<>> THEN EncryptionException(<<prefix>> \o r.err)
    ELSE Returned0(r)

\* the try block: strategy->validate(), then the call r on the strategy
tryValidated(checked, prefix, r) ==
    IF checked.err /= <<>> THEN Rethrown(prefix, checked)
    ELSE Rethrown(prefix, r)

\* std::string encrypt(const std::string& plainText)
context_encrypt(held, plainText) ==
    IF ~hasStrategy(held)
    THEN EncryptionException(<<"No encryption strategy set">>)
    ELSE IF plainText = <<>>
         THEN InvalidArgument("Plaintext cannot be empty")
    ELSE tryValidated(validate(held), "Encryption failed: ",
                      strategy_encrypt(held, plainText))

\* std::string decrypt(const std::string& cipherText)
context_decrypt(held, cipherText) ==
    IF ~hasStrategy(held)
    THEN EncryptionException(<<"No encryption strategy set">>)
    ELSE IF cipherText = <<>>
         THEN InvalidArgument("Ciphertext cannot be empty")
    ELSE tryValidated(validate(held), "Decryption failed: ",
                      strategy_decrypt(held, cipherText))

(* ---------------- the callers of the context ---------------- *)

\* what the random pool may give generateNewKeys
FreshKeys ==
    {[key |-> KeyBytes(32), iv |-> IvBytes(16)],
     [key |-> Fill(32, 7), iv |-> Fill(16, 9)]}

\* the strategies handed to setStrategy: none, AES, XOR with the keys
\* "key1" and "", and no encryption
NewStrategies ==
    {NoStrategy, AESEncryptionStrategy, NoEncryptionStrategy,
     XOREncryptionStrategy(<<107, 101, 121, 49>>), XOREncryptionStrategy(<<>>)}

\* "", "A", "Switch Test", and 17 bytes of text
ContextTexts ==
    {<<>>, <<65>>, <<83, 119, 105, 116, 99, 104, 32, 84, 101, 115, 116>>,
     Text(17)}

\* tokens that no encrypt has made: "zz" and "QUJD"
ContextJunk == {<<122, 122>>, <<81, 85, 74, 68>>}

InitContext ==
    /\ CipherIdle
    /\ blk = NoBlock
    /\ tam = NoTamper
    /\ BridgeIdle
    /\ strategy = NoStrategy
    /\ keyFiles \in {NoFiles, [key |-> KeyBytes(31), iv |-> IvBytes(16)]}
    /\ cx = NoContextCall
    /\ xr = NoXor
    /\ cod = NoCodec
    /\ UnitsIdle

contextRest == <<cipherVars, blk, tam, bridgeVars, xr, cod, unitVars>>

\* context.setStrategy(std::move(newStrategy)); cx.set keeps the strategy,
\* as initialized, of the last call that has returned, and cx.was the one
\* the context held before that call
SetStrategy(newStrategy, fresh, writable) ==
    /\ \E r \in {setStrategy(strategy, newStrategy, keyFiles, fresh, writable)} :
           /\ strategy' = r.strategy
           /\ keyFiles' = r.keyFiles
           /\ cx' = [op |-> "setStrategy", arg |-> newStrategy,
                     type |-> r.end.type, err |-> r.end.err, val |-> <<>>,
                     plain |-> <<>>,
                     set |-> IF r.end.err = <<>>
                             THEN Initialized(newStrategy, keyFiles, fresh,
                                              writable).self
                             ELSE cx.set,
                     was |-> IF r.end.err = <<>> THEN strategy ELSE cx.was]
    /\ UNCHANGED contextRest

\* context.encrypt(plainText)
ContextEncrypt(plainText) ==
    /\ \E r \in {context_encrypt(strategy, plainText)} :
           cx' = [op |-> "encrypt", arg |-> plainText, type |-> r.type,
                  err |-> r.err, val |-> r.val, plain |-> plainText,
                  set |-> cx.set, was |-> cx.was]
    /\ UNCHANGED <<strategy, keyFiles, contextRest>>

\* context.decrypt(cipherText), of what encrypt has returned or of junk
ContextDecrypt(cipherText) ==
    /\ \E r \in {context_decrypt(strategy, cipherText)} :
           cx' = [op |-> "decrypt", arg |-> cipherText, type |-> r.type,
                  err |-> r.err, val |-> r.val,
                  plain |-> IF cx.op = "encrypt" /\ cx.err = <<>>
                                 /\ cipherText = cx.val
                            THEN cx.plain ELSE <<>>,
                  set |-> cx.set, was |-> cx.was]
    /\ UNCHANGED <<strategy, keyFiles, contextRest>>

NextContext ==
    \/ \E newStrategy \in NewStrategies, fresh \in FreshKeys,
          writable \in BOOLEAN :
           SetStrategy(newStrategy, fresh, writable)
    \/ \E plainText \in ContextTexts : ContextEncrypt(plainText)
    \/ \E cipherText \in ContextJunk
             \cup (IF cx.op = "encrypt" /\ cx.err = <<>> THEN {cx.val} ELSE {}) :
           ContextDecrypt(cipherText)

SpecContext == InitContext /\ [][NextContext]_vars

(* ---------------- the context and its strategies ---------------- *)

\* C12: under every strategy set, encrypt of a non-empty x through the
\* context succeeds, and decrypt through the context of what it has
\* returned succeeds and returns x.
ContextRoundTrip ==
    /\ (cx.op = "encrypt" /\ hasStrategy(strategy) /\ cx.arg /= <<>>)
         => cx.err = <<>>
    /\ (cx.op = "decrypt" /\ cx.plain /= <<>>)
         => (cx.err = <<>> /\ cx.val = cx.plain)

\* the same of the XOR and the no-encryption strategy alone
ContextRoundTripWithoutInit ==
    ~requiresInitialization(strategy) => ContextRoundTrip

\* "Switch Test" has come back through the context under the XOR strategy
XorThroughContext ==
    /\ cx.op = "decrypt"
    /\ strategy.kind = "XOR"
    /\ cx.plain = <<83, 119, 105, 116, 99, 104, 32, 84, 101, 115, 116>>
    /\ cx.val = cx.plain

\* what the validate of the AES strategy makes of a call through the context
ValidateRefused(prefix) ==
    <<"Encryption Error: ", prefix, "Encryption Error: ",
      "Strategy requires initialization before use">>

NoStrategyRefused ==
    /\ cx.op = "encrypt"
    /\ ~hasStrategy(strategy)
    /\ cx.type = "EncryptionException"

(* ---------------- the rounds and the key schedule ---------------- *)

\* C15: aesDecryptBlock of what aesEncryptBlock has put out, under the
\* round keys of the same key, is the input block.
BlockInverse ==
    blk.back /= <<>> => blk.back = blk.in

\* the steps one pass of the loop of aesEncryptBlock takes, by name
RoundOps(round) ==
    <<"SubBytes", "ShiftRows">>
      \o (IF round /= LastLoopRound THEN <<"MixColumns">> ELSE <<>>)
      \o <<"AddRoundKey">>

\* for (round = 1; round <= 13; ++round), from round on
RECURSIVE LoopOps(_)
LoopOps(round) ==
    IF round > LastLoopRound THEN <<>>
    ELSE RoundOps(round) \o LoopOps(round + 1)

\* the steps of aesEncryptBlock: the first AddRoundKey, the loop, and the
\* AddRoundKey with w[56..59]
aesEncryptBlockOps == <<"AddRoundKey">> \o LoopOps(1) \o <<"AddRoundKey">>

\* how often a step is taken
Times(op, ops) == Cardinality({i \in 1..Len(ops) : ops[i] = op})

\* C16: aesEncryptBlock takes SubBytes and ShiftRows 14 times and MixColumns
\* 13 times, and its output is that of AddRoundKey(0), rounds 1..13 of
\* SubBytes, ShiftRows, MixColumns and the round key, and a round 14 of
\* SubBytes, ShiftRows and the key words 56..59.
FourteenRounds ==
    blk.out /= <<>>
        => /\ Times("SubBytes", aesEncryptBlockOps) = 14
           /\ Times("ShiftRows", aesEncryptBlockOps) = 14
           /\ Times("MixColumns", aesEncryptBlockOps) = 13
           /\ blk.out = LibraryEncryptBlock(blk.in, keyExpansion(blk.key))

\* w[i - 1] of the schedule w as the case i % 8 == 0 transforms it: bytes
\* rotated left by one, substituted, rcon[i / 8] xored into the first
ScheduleCoreOf(w, i) ==
    <<Xor(sbox[w[i][2]], rcon[i \div 8]), sbox[w[i][3]], sbox[w[i][4]],
      sbox[w[i][1]]>>

\* the bytes of w[i - 1] substituted, for i % 8 == 4
ScheduleSubOf(w, i) ==
    <<sbox[w[i][1]], sbox[w[i][2]], sbox[w[i][3]], sbox[w[i][4]]>>

\* w[i] = w[i - 8] ^ t, byte by byte; the sequence w holds w[i] at i + 1
ScheduleWordHolds(w, i) ==
    \A b \in 1..4 :
        w[i + 1][b] = Xor(w[i - 7][b],
                          IF i % 8 = 0 THEN ScheduleCoreOf(w, i)[b]
                          ELSE IF i % 8 = 4 THEN ScheduleSubOf(w, i)[b]
                          ELSE w[i][b])

ScheduleHolds(w, key) ==
    /\ Len(w) = 60
    /\ \A i \in 0..7 : \A b \in 1..4 : w[i + 1][b] = key[4 * i + b]
    /\ \A i \in 8..59 : ScheduleWordHolds(w, i)
    /\ \A i \in 1..60 : Len(w[i]) = 4 /\ \A b \in 1..4 : w[i][b] \in Byte

\* C17: keyExpansion returns 60 words of 32 bits; w[0..7] are the key bytes,
\* four to a word, first byte highest; and for i in 8..59 w[i] is w[i-8]
\* xored with SubWord(RotWord(w[i-1])) ^ (rcon[i/8] << 24) when i mod 8 = 0,
\* with SubWord(w[i-1]) when i mod 8 = 4, and with w[i-1] otherwise.
KeyScheduleRecurrence ==
    blk.out /= <<>> => ScheduleHolds(keyExpansion(blk.key), blk.key)

\* the key 00 01 .. 1f has been expanded, and its last four words are
\* 24fc79cc bf0979e9 371ac23c 6d68de36 as in FIPS-197 C.3
FipsKeyExpanded ==
    /\ blk.key = FipsKey
    /\ blk.out /= <<>>
    /\ SubSeq(keyExpansion(blk.key), 57, 60)
         = << <<36, 252, 121, 204>>, <<191, 9, 121, 233>>,
              <<55, 26, 194, 60>>, <<109, 104, 222, 54>> >>

(* ---------------- the chaining of the blocks ---------------- *)

\* the block chained into block j of cipher bytes: the IV, or block j - 1
ChainedInto(cipherBytes, j) ==
    IF j = 0 THEN IvBytes(16) ELSE BlockAt(cipherBytes, 16 * (j - 1))

\* C[j] = E(P[j] ^ C[j-1]) for every block of the cipher bytes
ChainedForward(plainBytes, cipherBytes) ==
    \A j \in 0..(TamperBlocks - 1) :
        BlockAt(cipherBytes, 16 * j)
          = aesEncryptBlock(XorBlock(BlockAt(plainBytes, 16 * j),
                                     ChainedInto(cipherBytes, j)),
                            keyExpansion(FipsKey))

\* out[j] = D(C[j]) ^ C[j-1] for every block, C[j-1] as it was handed in
ChainedBackward(cipherBytes, out) ==
    \A j \in 0..(TamperBlocks - 1) :
        BlockAt(out, 16 * j)
          = XorBlock(aesDecryptBlock(BlockAt(cipherBytes, 16 * j),
                                     keyExpansion(FipsKey)),
                     ChainedInto(cipherBytes, j))

\* C18: the cipher blocks are C[i] = E(P[i] ^ C[i-1]) with the IV for
\* C[-1], and the CBC loop of decrypt gives D(C[i]) ^ C[i-1], with the
\* cipher block before it as it was handed in, and that is P[i].
CbcRecovers ==
    /\ tam.stage = "encrypted" => ChainedForward(tam.plain, tam.cipher)
    /\ tam.stage = "read"
         => /\ ChainedBackward(tam.cipher, tam.clean)
            /\ tam.clean = tam.plain
    /\ tam.stage = "decrypted" => ChainedBackward(tam.cipher, tam.got)

\* C18 without its last statement: the two loops chain as it says, whatever
\* the block transforms E and D give.
CbcChained ==
    /\ tam.stage = "encrypted" => ChainedForward(tam.plain, tam.cipher)
    /\ tam.stage = "read" => ChainedBackward(tam.cipher, tam.clean)
    /\ tam.stage = "decrypted" => ChainedBackward(tam.cipher, tam.got)

\* cipher block 0 has been altered and the bytes decrypted: block 1 has
\* been xored with a cipher block that no decryption has produced
FirstBlockTampered ==
    /\ tam.stage = "decrypted"
    /\ tam.i = 0
    /\ BlockAt(tam.got, 16) /= BlockAt(tam.clean, 16)

(* ======================================================================= *)
(* The padding and the base64 helpers on their own                         *)
(* ======================================================================= *)

\* the longest text handed to the helpers
MaxCodecLen == 18

\* texts of 0..MaxCodecLen bytes; bytes 0 and 255; data that ends like a
\* padding (01, and sixteen times 10); and the characters "=="
CodecData ==
    {Text(n) : n \in 0..MaxCodecLen}
      \cup {<<0>>, <<255, 255, 255>>, <<65, 1>>, Fill(16, 16), <<61, 61>>,
            <<0, 0, 0, 0>>}

\* what may follow a token: nothing, "=", "!QUJD", "=QUJD", a line feed
\* and "QQ"
CodecTails ==
    {<<>>, <<61>>, <<33, 81, 85, 74, 68>>, <<61, 81, 85, 74, 68>>,
     <<10, 81, 81>>}

InitCodec ==
    /\ CipherIdle
    /\ blk = NoBlock
    /\ tam = NoTamper
    /\ BridgeIdle
    /\ strategy = NoStrategy
    /\ keyFiles = NoFiles
    /\ cx = NoContextCall
    /\ xr = NoXor
    /\ UnitsIdle
    /\ cod \in {[op |-> "data", data |-> d, padded |-> <<>>,
                 unpadded |-> Returns(<<>>), encoded |-> <<>>, tail |-> <<>>,
                 decoded |-> <<>>] : d \in CodecData}

codecRest ==
    <<cipherVars, blk, tam, bridgeVars, strategy, keyFiles, cx, xr, unitVars>>

\* padded = pkcs7Pad(data, 16)
CodecPad ==
    /\ cod.op = "data"
    /\ cod' = [cod EXCEPT !.op = "pkcs7Pad", !.padded = pkcs7Pad(cod.data, 16)]
    /\ UNCHANGED codecRest

\* pkcs7Unpad(padded)
CodecUnpad ==
    /\ cod.op = "pkcs7Pad"
    /\ cod' = [cod EXCEPT !.op = "pkcs7Unpad", !.unpadded = pkcs7Unpad(cod.padded)]
    /\ UNCHANGED codecRest

\* encoded = base64Encode(data)
CodecEncode ==
    /\ cod.op = "data"
    /\ cod' = [cod EXCEPT !.op = "base64Encode",
                          !.encoded = base64Encode(cod.data)]
    /\ UNCHANGED codecRest

\* base64Decode(encoded + tail)
CodecDecode(tail) ==
    /\ cod.op = "base64Encode"
    /\ cod' = [cod EXCEPT !.op = "base64Decode", !.tail = tail,
                          !.decoded = base64Decode(cod.encoded \o tail)]
    /\ UNCHANGED codecRest

NextCodec ==
    \/ CodecPad
    \/ CodecUnpad
    \/ CodecEncode
    \/ \E tail \in CodecTails : CodecDecode(tail)

SpecCodec == InitCodec /\ [][NextCodec]_vars

\* the bytes pkcs7Pad has added
PadOf(c) == SubSeq(c.padded, Len(c.data) + 1, Len(c.padded))

\* C19: pkcs7Pad(d, 16) is d followed by p = 16 - (len(d) mod 16) bytes of
\* value p, 1 <= p <= 16 and p = 16 when len(d) is a multiple of 16; and
\* pkcs7Unpad of it returns d.
PadRoundTrip ==
    /\ cod.op \in {"pkcs7Pad", "pkcs7Unpad"}
         => /\ Len(PadOf(cod)) = 16 - (Len(cod.data) % 16)
            /\ Len(PadOf(cod)) \in 1..16
            /\ Len(cod.data) % 16 = 0 => Len(PadOf(cod)) = 16
            /\ \A i \in 1..Len(PadOf(cod)) : PadOf(cod)[i] = Len(PadOf(cod))
            /\ SubSeq(cod.padded, 1, Len(cod.data)) = cod.data
            /\ Len(cod.padded) % 16 = 0
    /\ cod.op = "pkcs7Unpad" => cod.unpadded = Returns(cod.data)

\* sixteen bytes of 10 have been padded with a block of their own and
\* unpadded again
FullBlockUnpadded ==
    /\ cod.op = "pkcs7Unpad"
    /\ cod.data = Fill(16, 16)
    /\ cod.padded = Fill(32, 16)
    /\ cod.unpadded.val = cod.data

\* the characters of str before its '=' tail are base64_chars
InAlphabet(str) ==
    \A i \in 1..Len(str) : \E k \in 1..64 : str[i] = base64_chars[k]

\* C20: base64Encode(d) has 4 characters for every 3 bytes begun, of the
\* alphabet but for a tail of '=' that fills the last group; base64Decode
\* of it returns d, and returns d as well when the token is followed by '='
\* or another character outside the alphabet and anything after that.
Base64RoundTrip ==
    /\ cod.op \in {"base64Encode", "base64Decode"}
         => /\ Len(cod.encoded) = 4 * ((Len(cod.data) + 2) \div 3)
            /\ InAlphabet(SubSeq(cod.encoded, 1,
                                 Len(cod.encoded) - ((3 - (Len(cod.data) % 3)) % 3)))
            /\ \A i \in 1..((3 - (Len(cod.data) % 3)) % 3) :
                   cod.encoded[Len(cod.encoded) + 1 - i] = PadChar
    /\ cod.op = "base64Decode" => cod.decoded = cod.data

\* a token of whole groups, followed by "!QUJD", has been decoded to the
\* bytes it was made from
TailIgnored ==
    /\ cod.op = "base64Decode"
    /\ Len(cod.data) = 3
    /\ cod.tail = <<33, 81, 85, 74, 68>>
    /\ cod.decoded = cod.data

(* ======================================================================= *)
(* The field product and the steps of a round on their own                 *)
(* ======================================================================= *)

\* the 16 states 00..0f, 10..1f, ..., f0..ff: every byte value, and in each
\* state sixteen different bytes
ByteRows == {[i \in 1..16 |-> 16 * k + i - 1] : k \in 0..15}

\* columns with one bit set, and columns over 00, 01, 53, 80 and ff
MixedColumns ==
    {[i \in 1..4 |-> IF i = r THEN Pow2(k) ELSE 0] : r \in 1..4, k \in 0..7}
      \cup {<<a, b, c, d>> : a \in {0, 1, 83, 128, 255}, b \in {0, 1, 83, 128, 255},
                             c \in {0, 1, 83, 128, 255}, d \in {0, 1, 83, 128, 255}}

\* a state of four columns: the column, and the column rotated by 1, 2, 3
StateOfColumn(c) ==
    c \o <<c[2], c[3], c[4], c[1]>> \o <<c[3], c[4], c[1], c[2]>>
      \o <<c[4], c[1], c[2], c[3]>>

FieldStates == ByteRows \cup {StateOfColumn(c) : c \in MixedColumns}

RoundSteps == {"SubBytes", "ShiftRows", "MixColumns"}

InitField ==
    /\ CipherIdle
    /\ blk = NoBlock
    /\ tam = NoTamper
    /\ BridgeIdle
    /\ strategy = NoStrategy
    /\ keyFiles = NoFiles
    /\ cx = NoContextCall
    /\ xr = NoXor
    /\ cod = NoCodec
    /\ dk = NoDerive
    /\ sc = NoStrategyCall
    /\ thr = NoThreads
    /\ auth = NoAuth
    /\ pe = NoEntry
    /\ \/ fm \in {[op |-> "bytes", a |-> a, b |-> b, p |-> 0] : a \in Byte, b \in Byte}
       \/ fm \in {[op |-> "state", state |-> s, out |-> <<>>, back |-> <<>>] :
                     s \in FieldStates}

fieldRest ==
    <<cipherVars, blk, tam, bridgeVars, strategy, keyFiles, cx, xr, cod,
      dk, sc, thr, auth, pe>>

\* p = gf_mul(a, b)
GfMul ==
    /\ fm.op = "bytes"
    /\ fm' = [fm EXCEPT !.op = "gf_mul", !.p = gf_mul(fm.a, fm.b)]
    /\ UNCHANGED fieldRest

\* the named step of aesEncryptBlock on a state
ForwardStep(step, state) ==
    CASE step = "SubBytes" -> SubBytes(state)
      [] step = "ShiftRows" -> ShiftRows(state)
      [] step = "MixColumns" -> MixColumns(state)

\* the matching step of aesDecryptBlock
InverseStep(step, state) ==
    CASE step = "SubBytes" -> InvSubBytes(state)
      [] step = "ShiftRows" -> InvShiftRows(state)
      [] step = "MixColumns" -> InvMixColumns(state)

\* one step of a round of aesEncryptBlock
Forward(step) ==
    /\ fm.op = "state"
    /\ fm' = [fm EXCEPT !.op = step, !.out = ForwardStep(step, fm.state)]
    /\ UNCHANGED fieldRest

\* the matching step of aesDecryptBlock on what the forward step has made
Inverse ==
    /\ fm.op \in RoundSteps
    /\ fm.back = <<>>
    /\ fm' = [fm EXCEPT !.back = InverseStep(fm.op, fm.out)]
    /\ UNCHANGED fieldRest

NextField ==
    \/ GfMul
    \/ \E step \in RoundSteps : Forward(step)
    \/ Inverse

SpecField == InitField /\ [][NextField]_vars

\* the exponents of the polynomial a byte (or a longer product) stands for
Exponents(n) == {i \in 0..14 : (n \div Pow2(i)) % 2 = 1}

\* the sum of two polynomials over GF(2)
PolySum(S, T1) == (S \ T1) \cup (T1 \ S)

\* the product of two polynomials over GF(2): x^k has coefficient 1 when an
\* odd number of pairs (i, j) with i + j = k has
PolyProduct(S, T1) ==
    {k \in 0..14 : Cardinality({i \in S : (k - i) \in T1}) % 2 = 1}

\* the remainder of a polynomial of degree <= d by x^8 + x^4 + x^3 + x + 1
RECURSIVE PolyReduce(_, _)
PolyReduce(S, d) ==
    IF d < 8 THEN S
    ELSE PolyReduce(IF d \in S
                    THEN PolySum(S, {d, d - 4, d - 5, d - 7, d - 8})
                    ELSE S, d - 1)

RECURSIVE PolyValue(_)
PolyValue(S) ==
    IF S = {} THEN 0
    ELSE LET i == CHOOSE j \in S : TRUE IN Pow2(i) + PolyValue(S \ {i})

\* the product of a and b in GF(2^8)
FieldProduct(a, b) ==
    PolyValue(PolyReduce(PolyProduct(Exponents(a), Exponents(b)), 14))

\* C21: gf_mul(a, b) is the product of a and b in GF(2^8) modulo
\* x^8 + x^4 + x^3 + x + 1 for every pair of bytes; it is a byte, it is the
\* same for (b, a), gf_mul(a, 1) = a and gf_mul(a, 0) = 0.
GfMulIsFieldProduct ==
    fm.op = "gf_mul"
      => /\ fm.p = FieldProduct(fm.a, fm.b)
         /\ fm.p \in Byte
         /\ fm.p = gf_mul(fm.b, fm.a)
         /\ fm.b = 1 => fm.p = fm.a
         /\ fm.b = 0 => fm.p = 0

\* gf_mul(0x57, 0x83) = 0xc1, a product that is reduced
ReducedProduct ==
    fm.op = "gf_mul" /\ fm.a = 87 /\ fm.b = 131 /\ fm.p = 193

\* C30: inv_sbox[sbox[x]] = x for all 256 bytes, the inverse row rotation
\* restores the state the forward rotation was given, and the inverse
\* column mix of the forward column mix of a column is the column.
InverseStepsUndo ==
    (fm.op \in RoundSteps /\ fm.back /= <<>>) => fm.back = fm.state

\* a state whose rows were rotated and rotated back, and a column that was
\* mixed and mixed back
RowsRestored ==
    /\ fm.op = "ShiftRows"
    /\ fm.state = [i \in 1..16 |-> i - 1]
    /\ fm.out = <<0, 5, 10, 15, 4, 9, 14, 3, 8, 13, 2, 7, 12, 1, 6, 11>>
    /\ fm.back = fm.state
(* ======================================================================= *)
(* Two threads inside the bridge                                           *)
(* ======================================================================= *)

\* The bridge takes no lock, so a thread may be preempted between any two
\* statements that touch the statics.  thr holds the statics as the threads
\* see them: g_aes is an address (0 is nullptr), heap[a] tells whether the
\* SimpleAES allocated at a still exists, and for each thread pc is the
\* function it is in and the statement it is at, and this is the address
\* its call of encrypt or decrypt runs on.

\* the number of SimpleAES objects the threads may allocate
MaxObjects == 3

Threads == {1, 2}

Idle == [fn |-> "none", at |-> "idle"]

Methods == {"cpp_encrypt_aes", "cpp_decrypt_aes"}

Droppers == {"cpp_set_user_password", "cpp_clear_keys", "cpp_reset_keys"}

At0(fn) ==
    CASE fn \in Methods -> [fn |-> fn, at |-> "initAES"]
      [] fn = "cpp_set_user_password" -> [fn |-> fn, at |-> "assign"]
      [] OTHER -> [fn |-> fn, at |-> "delete"]

InitThreads ==
    /\ CipherIdle
    /\ blk = NoBlock
    /\ tam = NoTamper
    /\ BridgeIdle
    /\ strategy = NoStrategy
    /\ keyFiles = NoFiles
    /\ cx = NoContextCall
    /\ xr = NoXor
    /\ cod = NoCodec
    /\ fm = NoField
    /\ dk = NoDerive
    /\ sc = NoStrategyCall
    /\ auth = NoAuth
    /\ pe = NoEntry
    /\ thr \in {[op |-> "threads", pc |-> <<Idle, Idle>>, this |-> <<0, 0>>,
                 g_aes |-> 0, heap |-> <<>>, g_userPassword |-> <<>>,
                 files |-> f] :
                    f \in {NoFiles, [key |-> KeyBytes(32), iv |-> IvBytes(16)]}}

threadsRest ==
    <<cipherVars, blk, tam, bridgeVars, strategy, keyFiles, cx, xr, cod,
      fm, dk, sc, auth, pe>>

\* thread t enters one of the exported functions with a non-null argument
Enter(t, fn) ==
    /\ thr.pc[t] = Idle
    /\ thr' = [thr EXCEPT !.pc[t] = At0(fn)]
    /\ UNCHANGED threadsRest

\* g_userPassword = std::string(password); g_keysInitialized = false
AssignPassword(t, password) ==
    /\ thr.pc[t] = [fn |-> "cpp_set_user_password", at |-> "assign"]
    /\ thr' = [thr EXCEPT !.g_userPassword = password, !.pc[t].at = "delete"]
    /\ UNCHANGED threadsRest

\* if (g_aes) { delete g_aes; : the object g_aes points to is destroyed
DeleteCipher(t) ==
    /\ thr.pc[t].fn \in Droppers
    /\ thr.pc[t].at = "delete"
    /\ thr' = IF thr.g_aes = 0
              THEN [thr EXCEPT !.pc[t].at = "removed"]
              ELSE [thr EXCEPT !.heap[thr.g_aes] = FALSE,
                               !.pc[t].at = "nullify"]
    /\ UNCHANGED threadsRest

\* g_aes = nullptr; }
Nullify(t) ==
    /\ thr.pc[t].fn \in Droppers
    /\ thr.pc[t].at = "nullify"
    /\ thr' = [thr EXCEPT !.g_aes = 0, !.pc[t].at = "removed"]
    /\ UNCHANGED threadsRest

\* what follows the if: cpp_set_user_password returns, the other two remove
\* the key files, and cpp_reset_keys goes on to initAES
AfterDelete(t) ==
    /\ thr.pc[t].fn \in Droppers
    /\ thr.pc[t].at = "removed"
    /\ thr' = CASE thr.pc[t].fn = "cpp_set_user_password" ->
                       [thr EXCEPT !.pc[t] = Idle]
                [] thr.pc[t].fn = "cpp_clear_keys" ->
                       [thr EXCEPT !.files = NoFiles, !.pc[t] = Idle]
                [] thr.pc[t].fn = "cpp_reset_keys" ->
                       [thr EXCEPT !.files = NoFiles, !.pc[t].at = "initAES"]
    /\ UNCHANGED threadsRest

\* where a thread goes when initAES returns
AfterInit(pc) == IF pc.fn \in Methods THEN [pc EXCEPT !.at = "check"] ELSE Idle

\* initAES: if (g_aes != nullptr) return;
InitTest(t) ==
    /\ thr.pc[t].at = "initAES"
    /\ thr' = IF thr.g_aes /= 0
              THEN [thr EXCEPT !.pc[t] = AfterInit(@)]
              ELSE [thr EXCEPT !.pc[t].at = "new"]
    /\ UNCHANGED threadsRest

\* whether the rest of initAES gets to a new SimpleAES(key, iv)
Allocates(password, fs) ==
    \/ password /= <<>>
    \/ /\ fs.key /= <<>>
       /\ fs.iv /= <<>>
       /\ keysValid(ReadInto(32, fs.key))

\* initAES after the test: g_aes = new SimpleAES(key, iv) from the password
\* or from the key files, or "No keys available"
InitNew(t) ==
    /\ thr.pc[t].at = "new"
    /\ Allocates(thr.g_userPassword, thr.files) => Len(thr.heap) < MaxObjects
    /\ thr' = IF Allocates(thr.g_userPassword, thr.files)
              THEN [thr EXCEPT !.heap = Append(@, TRUE),
                               !.g_aes = Len(thr.heap) + 1,
                               !.pc[t] = AfterInit(@)]
              ELSE [thr EXCEPT !.pc[t] = AfterInit(@)]
    /\ UNCHANGED threadsRest

\* if (!g_aes) return nullptr;
CheckNull(t) ==
    /\ thr.pc[t].fn \in Methods
    /\ thr.pc[t].at = "check"
    /\ thr' = IF thr.g_aes = 0
              THEN [thr EXCEPT !.pc[t] = Idle]
              ELSE [thr EXCEPT !.this[t] = thr.g_aes, !.pc[t].at = "call"]
    /\ UNCHANGED threadsRest

\* g_aes->encrypt(...) or g_aes->decrypt(...) begins.  The two reads of
\* g_aes are not ordered against the writes of the other thread: the call
\* runs on the pointer the check has read or on the one g_aes holds now.
MethodBegins(t, reload) ==
    /\ thr.pc[t].fn \in Methods
    /\ thr.pc[t].at = "call"
    /\ thr' = [thr EXCEPT !.this[t] = IF reload THEN thr.g_aes ELSE @,
                          !.pc[t].at = "method"]
    /\ UNCHANGED threadsRest

\* the method returns and the function copies the string and returns
MethodReturns(t) ==
    /\ thr.pc[t].fn \in Methods
    /\ thr.pc[t].at = "method"
    /\ thr' = [thr EXCEPT !.this[t] = 0, !.pc[t] = Idle]
    /\ UNCHANGED threadsRest

NextThreads ==
    \/ \E t \in Threads, fn \in Methods \cup Droppers : Enter(t, fn)
    \/ \E t \in Threads, password \in Passwords \cup {<<>>} :
           AssignPassword(t, password)
    \/ \E t \in Threads : DeleteCipher(t)
    \/ \E t \in Threads : Nullify(t)
    \/ \E t \in Threads : AfterDelete(t)
    \/ \E t \in Threads : InitTest(t)
    \/ \E t \in Threads : InitNew(t)
    \/ \E t \in Threads : CheckNull(t)
    \/ \E t \in Threads, reload \in BOOLEAN : MethodBegins(t, reload)
    \/ \E t \in Threads : MethodReturns(t)

SpecThreads == InitThreads /\ [][NextThreads]_vars

\* thread t is inside encrypt or decrypt of a SimpleAES
InFlight(t) == thr.pc[t].fn \in Methods /\ thr.pc[t].at = "method"

\* C22: while cpp_encrypt_aes or cpp_decrypt_aes of one thread is inside
\* the method of the cipher, the instance it runs on exists: no
\* cpp_set_user_password, cpp_clear_keys or cpp_reset_keys of the other
\* thread has deleted it or set g_aes to null under it.
InFlightCipherExists ==
    thr.op = "threads"
      => \A t \in Threads :
             InFlight(t) => thr.this[t] /= 0 /\ thr.heap[thr.this[t]]

(* ---------------- the password and the cipher at the bridge ------------- *)

\* the SimpleAES initAES builds from the 48 bytes deriveKey has returned
CipherOf(derived) == [key |-> KeyPart(derived), iv |-> IvPart(derived)]

\* what the last call has returned is what the method of cipher c returns
\* for its argument, or nullptr for a malloc that failed
AnsweredBy(c) ==
    /\ (ret.op = "cpp_encrypt_aes" /\ ~ret.arg.null)
         => ret.out \in {NullPtr, Returned(encrypt(c, ret.arg.str), TRUE)}
    /\ (ret.op = "cpp_decrypt_aes" /\ ~ret.arg.null)
         => ret.out \in {NullPtr, Returned(decrypt(c, ret.arg.str), TRUE)}

\* C23: after any sequence of calls, a cipher instance that exists while a
\* password is stored has the key and IV derived from that password, bytes
\* 0..31 and 32..47 of deriveKey(password, salt, iterations, 48), and what
\* cpp_encrypt_aes and cpp_decrypt_aes return under a stored password is the
\* answer of that cipher, never of one derived from an earlier password.
CipherOfStoredPassword ==
    g_userPassword /= <<>>
      => \A c \in {CipherOf(deriveKey(g_userPassword, Salt, Iterations, 48))} :
             /\ g_aes /= NoObject => g_aes = c
             /\ AnsweredBy(c)

\* the token forged for "pw" has been handed to cpp_decrypt_aes while the
\* stored password is "hunter2", and decrypt has run on an instance
StaleTokenUnderNewPassword ==
    /\ g_userPassword = <<104, 117, 110, 116, 101, 114, 50>>
    /\ ret.op = "cpp_decrypt_aes"
    /\ ret.arg = Chars(ForgedForPw)
    /\ ret.did \in {"kept", "derived"}
    /\ g_aes /= NoObject
    /\ ret.out /= Chars(<<65, 66>>)

\* cpp_clear_keys or cpp_reset_keys has just returned
KeysDroppedStep == ret'.op \in {"cpp_clear_keys", "cpp_reset_keys"}

\* C24: cpp_clear_keys and cpp_reset_keys leave the stored password as it
\* is; with a password stored, the cpp_encrypt_aes that follows returns a
\* token, the one it would have returned before the call; with none
\* stored it returns nullptr.
PasswordOutlivesKeys ==
    [][KeysDroppedStep
         => /\ g_userPassword' = g_userPassword
            /\ \A plain \in FollowingPlain :
                 \A after \in {EncryptAnswer(Statics', g_userPassword', plain)} :
                   IF g_userPassword /= <<>>
                   THEN /\ ~after.null
                        /\ after.str /= <<>>
                        /\ after = EncryptAnswer(Statics, g_userPassword, plain)
                   ELSE after = NullPtr]_vars

\* cpp_clear_keys has deleted the cipher derived from "pw"; "pw" is still
\* stored
ClearedWithPassword ==
    /\ ret.op = "cpp_clear_keys"
    /\ g_userPassword = <<112, 119>>
    /\ g_aes = NoObject
    /\ g_keysInitialized
(* ======================================================================= *)
(* deriveKey on its own                                                    *)
(* ======================================================================= *)

\* the longest passphrase handed to deriveKey
MaxPassLen == 30

\* the largest iteration count handed to deriveKey
MaxIterations == 4

\* passphrases of 0..MaxPassLen bytes: bytes counting up from 0, the letter
\* "a" repeated, and ff repeated
Passphrases ==
    UNION {{Text(n), Fill(n, 97), Fill(n, 255)} : n \in 0..MaxPassLen}

InitDerive ==
    /\ CipherIdle
    /\ blk = NoBlock
    /\ tam = NoTamper
    /\ BridgeIdle
    /\ strategy = NoStrategy
    /\ keyFiles = NoFiles
    /\ cx = NoContextCall
    /\ xr = NoXor
    /\ cod = NoCodec
    /\ fm = NoField
    /\ sc = NoStrategyCall
    /\ thr = NoThreads
    /\ auth = NoAuth
    /\ pe = NoEntry
    /\ dk \in {[op |-> "password", password |-> p, iterations |-> 0,
                derived |-> <<>>] : p \in Passphrases}

deriveRest ==
    <<cipherVars, blk, tam, bridgeVars, strategy, keyFiles, cx, xr, cod,
      fm, sc, thr, auth, pe>>

\* derived = deriveKey(password, salt, iterations, 48), with the salt of
\* initAES
DeriveKey(iterations) ==
    /\ dk.op = "password"
    /\ dk' = [dk EXCEPT !.op = "deriveKey", !.iterations = iterations,
                        !.derived = deriveKey(dk.password, Salt, iterations, 48)]
    /\ UNCHANGED deriveRest

NextDerive == \E iterations \in 0..MaxIterations : DeriveKey(iterations)

SpecDerive == InitDerive /\ [][NextDerive]_vars

\* C25: for a passphrase of L < 28 bytes the bytes 20 + L .. 45 of
\* deriveKey(passphrase, salt, iterations, 48) are zero, whatever the
\* iteration count; for L <= 12 these include the first 14 bytes of the IV.
DerivedTailZero ==
    (dk.op = "deriveKey" /\ Len(dk.password) < 28)
      => /\ \A i \in (Len(dk.password) + 20)..45 : At(dk.derived, i) = 0
         /\ Len(dk.password) <= 12
              => SubSeq(IvPart(dk.derived), 1, 14) = Fill(14, 0)

\* a passphrase of 12 bytes: bytes 0..31 of the result are not zero, the
\* IV is fourteen zero bytes and two bytes that are not zero
DerivedIvMostlyZero ==
    /\ dk.op = "deriveKey"
    /\ Len(dk.password) = 12
    /\ dk.iterations = MaxIterations
    /\ \A i \in 0..31 : At(dk.derived, i) /= 0
    /\ SubSeq(IvPart(dk.derived), 1, 14) = Fill(14, 0)
    /\ At(dk.derived, 46) /= 0
    /\ At(dk.derived, 47) /= 0
(* ======================================================================= *)
(* An AESEncryptionStrategy called directly                                *)
(* ======================================================================= *)

\* A variant of clearKeys that removes the files and leaves the strategy
\* initialized.
AES_clearKeysStaysInitialized(self, fs) == [self |-> self, keyFiles |-> NoFiles]

\* clearKeys(): std::remove of the two files, initialized = false; the key
\* and the IV stay in memory.  [self, keyFiles]
AES_clearKeys(self, fs) ==
    [self |-> [self EXCEPT !.initialized = FALSE], keyFiles |-> NoFiles]

\* the key files found at construction: none, a key and an IV, and a key
\* file cut short
StrategyFiles ==
    {NoFiles,
     [key |-> Fill(32, 1), iv |-> Fill(16, 2)],
     [key |-> KeyBytes(31), iv |-> IvBytes(16)]}

\* "", "A" and 16 bytes of text
StrategyTexts == {<<>>, <<65>>, Text(16)}

\* sc is the last call: [op, arg, err, val], the strategy and the files as
\* they were before it (was, files), and since: "constructed" until the
\* first call of initialize() or clearKeys(), then the later of the two
InitStrategy ==
    /\ CipherIdle
    /\ blk = NoBlock
    /\ tam = NoTamper
    /\ BridgeIdle
    /\ cx = NoContextCall
    /\ xr = NoXor
    /\ cod = NoCodec
    /\ fm = NoField
    /\ dk = NoDerive
    /\ thr = NoThreads
    /\ auth = NoAuth
    /\ pe = NoEntry
    /\ strategy = AESEncryptionStrategy
    /\ keyFiles \in StrategyFiles
    /\ sc = [op |-> "AESEncryptionStrategy", arg |-> <<>>, err |-> <<>>,
             val |-> <<>>, was |-> NoStrategy, files |-> NoFiles,
             since |-> "constructed"]

strategyRest ==
    <<cipherVars, blk, tam, bridgeVars, cx, xr, cod, fm, dk, thr, auth, pe>>

\* strategy.initialize()
StrategyInitialize(fresh, writable) ==
    /\ sc.op /= "none"
    /\ \E r \in {AES_initialize(strategy, keyFiles, fresh, writable)} :
           /\ strategy' = r.self
           /\ keyFiles' = r.keyFiles
           /\ sc' = [op |-> "initialize", arg |-> <<>>, err |-> r.err,
                     val |-> <<>>, was |-> strategy, files |-> keyFiles,
                     since |-> "initialize"]
    /\ UNCHANGED strategyRest

\* strategy.encrypt(plainText)
StrategyEncrypt(plainText) ==
    /\ sc.op /= "none"
    /\ \E r \in {AES_encrypt(strategy, plainText)} :
           sc' = [sc EXCEPT !.op = "encrypt", !.arg = plainText,
                            !.err = r.err, !.val = r.val, !.was = strategy,
                            !.files = keyFiles]
    /\ UNCHANGED <<strategy, keyFiles, strategyRest>>

\* strategy.decrypt(cipherText)
StrategyDecrypt(cipherText) ==
    /\ sc.op /= "none"
    /\ \E r \in {AES_decrypt(strategy, cipherText)} :
           sc' = [sc EXCEPT !.op = "decrypt", !.arg = cipherText,
                            !.err = r.err, !.val = r.val, !.was = strategy,
                            !.files = keyFiles]
    /\ UNCHANGED <<strategy, keyFiles, strategyRest>>

\* strategy.clearKeys()
StrategyClearKeys ==
    /\ sc.op /= "none"
    /\ \E r \in {AES_clearKeys(strategy, keyFiles)} :
           /\ strategy' = r.self
           /\ keyFiles' = r.keyFiles
           /\ sc' = [op |-> "clearKeys", arg |-> <<>>, err |-> <<>>,
                     val |-> <<>>, was |-> strategy, files |-> keyFiles,
                     since |-> "clearKeys"]
    /\ UNCHANGED strategyRest

NextStrategy ==
    \/ \E fresh \in FreshKeys, writable \in BOOLEAN :
           StrategyInitialize(fresh, writable)
    \/ \E plainText \in StrategyTexts : StrategyEncrypt(plainText)
    \/ \E cipherText \in ContextJunk
             \cup (IF sc.op = "encrypt" /\ sc.err = <<>> THEN {sc.val} ELSE {}) :
           StrategyDecrypt(cipherText)
    \/ StrategyClearKeys

SpecStrategy == InitStrategy /\ [][NextStrategy]_vars

InitializedAgain ==
    /\ sc.op = "initialize"
    /\ sc.was.key = KeyBytes(32)
    /\ ~sc.was.initialized
    /\ sc.files = NoFiles
    /\ strategy.initialized
    /\ strategy.key = Fill(32, 7)
(* ---------------- tokens that hold no bytes ---------------- *)

CannotUnpadEmpty == <<"Decryption failed: ", "Cannot unpad empty data">>

\* the last call was decrypt of a token that is not empty and decodes to no
\* bytes
DecryptedNoBytes ==
    /\ last.op = "decrypt"
    /\ last.arg /= <<>>
    /\ Decoded(last.arg) = <<>>

\* the last call was decrypt and has returned the empty plaintext
DecryptedToEmpty == last.op = "decrypt" /\ last.err = <<>> /\ last.val = <<>>

PaddingBlockDecryptedToEmpty ==
    /\ DecryptedToEmpty
    /\ Len(last.arg) = 24
(* ======================================================================= *)
(* AuthManager                                                             *)
(* ======================================================================= *)

\* Strings are sequences of character codes.

isupper(c) == c \in 65..90

islower(c) == c \in 97..122

isdigit(c) == c \in 48..57

isalnum(c) == isupper(c) \/ islower(c) \/ isdigit(c)

AlphaNumerics == (65..90) \cup (97..122) \cup (48..57)

\* [a-zA-Z0-9._%+-]
LocalChars == AlphaNumerics \cup {46, 95, 37, 43, 45}

\* [a-zA-Z0-9.-]
DomainChars == AlphaNumerics \cup {46, 45}

\* [a-zA-Z]
Letters == (65..90) \cup (97..122)

\* every character of s[lo..hi] is of the class, and there is one at least
OneOrMore(s, lo, hi, class) == lo <= hi /\ \A k \in lo..hi : s[k] \in class

\* std::regex_match(email, [a-zA-Z0-9._%+-]+@[a-zA-Z0-9.-]+\.[a-zA-Z]{2,}):
\* the whole string is a local part, "@" at i, a domain, "." at j, and two
\* letters or more
isEmailValid(email) ==
    \E i \in 1..Len(email), j \in 1..Len(email) :
        /\ email[i] = 64
        /\ email[j] = 46
        /\ OneOrMore(email, 1, i - 1, LocalChars)
        /\ OneOrMore(email, i + 1, j - 1, DomainChars)
        /\ OneOrMore(email, j + 1, Len(email), Letters)
        /\ Len(email) - j >= 2

\* the loop of validatePasswordStrength: which of the four flags are set
hasUpper(password) == \E k \in 1..Len(password) : isupper(password[k])

hasLower(password) == \E k \in 1..Len(password) : islower(password[k])

hasDigit(password) == \E k \in 1..Len(password) : isdigit(password[k])

hasSpecial(password) == \E k \in 1..Len(password) : ~isalnum(password[k])

One(flag) == IF flag THEN 1 ELSE 0

typeCount(password) ==
    One(hasUpper(password)) + One(hasLower(password))
      + One(hasDigit(password)) + One(hasSpecial(password))

validatePasswordStrength(password) ==
    IF Len(password) < 8 THEN FALSE ELSE typeCount(password) >= 3

\* std::to_string of a number that is not negative
RECURSIVE to_string(_)
to_string(n) ==
    IF n < 10 THEN <<48 + n>> ELSE Append(to_string(n \div 10), 48 + (n % 10))

\* "user_" + std::to_string(timestamp) + "_" + std::to_string(dis(gen))
generateUserId(timestamp, random) ==
    <<117, 115, 101, 114, 95>> \o to_string(timestamp) \o <<95>>
      \o to_string(random)

\* AuthManager(): the three session fields
AuthManager ==
    [currentUserEmail |-> <<>>, currentUserId |-> <<>>, isAuthenticated |-> FALSE]

\* AuthResult; a userId that is not assigned is an empty string
AuthResult(success, message, userId) ==
    [success |-> success, message |-> message, userId |-> userId]

\* what registerUser and loginUser do once the inputs have passed
SignedIn(self, email, userId, message) ==
    [self |-> [currentUserEmail |-> email, currentUserId |-> userId,
               isAuthenticated |-> TRUE],
     result |-> AuthResult(TRUE, message, userId)]

\* registerUser(email, password), with the id generateUserId returns
registerUser(self, email, password, userId) ==
    IF ~isEmailValid(email)
    THEN [self |-> self, result |-> AuthResult(FALSE, "Invalid email format", <<>>)]
    ELSE IF ~validatePasswordStrength(password)
    THEN [self |-> self,
          result |-> AuthResult(FALSE, "Password is too weak. Use at least 8 characters with mix of letters, numbers, and symbols", <<>>)]
    ELSE SignedIn(self, email, userId, "Registration successful")

\* loginUser(email, password)
loginUser(self, email, password, userId) ==
    IF ~isEmailValid(email)
    THEN [self |-> self, result |-> AuthResult(FALSE, "Invalid email format", <<>>)]
    ELSE IF password = <<>>
    THEN [self |-> self, result |-> AuthResult(FALSE, "Password cannot be empty", <<>>)]
    ELSE SignedIn(self, email, userId, "Login successful")

\* A variant of logoutUser that keeps the email.
logoutUserKeepsEmail(self) ==
    [self |-> [self EXCEPT !.currentUserId = <<>>, !.isAuthenticated = FALSE],
     result |-> TRUE]

\* logoutUser()
logoutUser(self) ==
    [self |-> [currentUserEmail |-> <<>>, currentUserId |-> <<>>,
               isAuthenticated |-> FALSE],
     result |-> TRUE]

isLoggedIn(self) == self.isAuthenticated

\* "a@b.co", "user.name+tag@mail-1.example.org": valid.  "", "a@b", "a@b.c",
\* "@b.co", "a b@c.de", "a@b.c0m", "a@@b.co": not valid.
Emails ==
    {<<97, 64, 98, 46, 99, 111>>,
     <<117, 115, 101, 114, 46, 110, 97, 109, 101, 43, 116, 97, 103, 64, 109, 97,
       105, 108, 45, 49, 46, 101, 120, 97, 109, 112, 108, 101, 46, 111, 114, 103>>,
     <<>>, <<97, 64, 98>>, <<97, 64, 98, 46, 99>>, <<64, 98, 46, 99, 111>>,
     <<97, 32, 98, 64, 99, 46, 100, 101>>, <<97, 64, 98, 46, 99, 48, 109>>,
     <<97, 64, 64, 98, 46, 99, 111>>}

\* "", "Ab1!" (short), "password" (one kind), "PASSWORD12" (two kinds),
\* "Passw0rd" and "pass word1" (three kinds), "P@ssw0rd" (four kinds)
AuthPasswords ==
    {<<>>, <<65, 98, 49, 33>>, <<112, 97, 115, 115, 119, 111, 114, 100>>,
     <<80, 65, 83, 83, 87, 79, 82, 68, 49, 50>>,
     <<80, 97, 115, 115, 119, 48, 114, 100>>,
     <<112, 97, 115, 115, 32, 119, 111, 114, 100, 49>>,
     <<80, 64, 115, 115, 119, 48, 114, 100>>}

\* the readings of the clock, in milliseconds, and the numbers drawn from
\* 1000..9999
Timestamps == {0, 1700000000}

Randoms == {1000, 9999}

UserIds == {generateUserId(t, r) : t \in Timestamps, r \in Randoms}

InitAuth ==
    /\ CipherIdle
    /\ blk = NoBlock
    /\ tam = NoTamper
    /\ BridgeIdle
    /\ strategy = NoStrategy
    /\ keyFiles = NoFiles
    /\ cx = NoContextCall
    /\ xr = NoXor
    /\ cod = NoCodec
    /\ fm = NoField
    /\ dk = NoDerive
    /\ sc = NoStrategyCall
    /\ thr = NoThreads
    /\ pe = NoEntry
    /\ auth = [op |-> "AuthManager", self |-> AuthManager, email |-> <<>>,
               password |-> <<>>, result |-> AuthResult(FALSE, "", <<>>),
               was |-> AuthManager]

authRest ==
    <<cipherVars, blk, tam, bridgeVars, strategy, keyFiles, cx, xr, cod,
      fm, dk, sc, thr, pe>>

\* authManager.registerUser(email, password)
RegisterUser(email, password, userId) ==
    /\ auth.op /= "none"
    /\ \E r \in {registerUser(auth.self, email, password, userId)} :
           auth' = [op |-> "registerUser", self |-> r.self, email |-> email,
                    password |-> password, result |-> r.result,
                    was |-> auth.self]
    /\ UNCHANGED authRest

\* authManager.loginUser(email, password)
LoginUser(email, password, userId) ==
    /\ auth.op /= "none"
    /\ \E r \in {loginUser(auth.self, email, password, userId)} :
           auth' = [op |-> "loginUser", self |-> r.self, email |-> email,
                    password |-> password, result |-> r.result,
                    was |-> auth.self]
    /\ UNCHANGED authRest

\* authManager.logoutUser()
LogoutUser ==
    /\ auth.op /= "none"
    /\ \E r \in {logoutUser(auth.self)} :
           auth' = [op |-> "logoutUser", self |-> r.self, email |-> <<>>,
                    password |-> <<>>,
                    result |-> AuthResult(r.result, "", <<>>),
                    was |-> auth.self]
    /\ UNCHANGED authRest

NextAuth ==
    \/ \E email \in Emails, password \in AuthPasswords, userId \in UserIds :
           RegisterUser(email, password, userId)
    \/ \E email \in Emails, password \in AuthPasswords, userId \in UserIds :
           LoginUser(email, password, userId)
    \/ LogoutUser

SpecAuth == InitAuth /\ [][NextAuth]_vars

\* the emails and passwords of the inputs that the two functions turn down
BadEmails ==
    {<<>>, <<97, 64, 98>>, <<97, 64, 98, 46, 99>>, <<64, 98, 46, 99, 111>>,
     <<97, 32, 98, 64, 99, 46, 100, 101>>, <<97, 64, 98, 46, 99, 48, 109>>,
     <<97, 64, 64, 98, 46, 99, 111>>}

WeakPasswords ==
    {<<>>, <<65, 98, 49, 33>>, <<112, 97, 115, 115, 119, 111, 114, 100>>,
     <<80, 65, 83, 83, 87, 79, 82, 68, 49, 50>>}

\* the last call was a registerUser or loginUser that had to be turned down
Rejected ==
    \/ /\ auth.op \in {"registerUser", "loginUser"}
       /\ auth.email \in BadEmails
    \/ /\ auth.op = "registerUser"
       /\ auth.password \in WeakPasswords
    \/ /\ auth.op = "loginUser"
       /\ auth.password = <<>>

\* C28: after any sequence of registerUser, loginUser and logoutUser,
\* isLoggedIn() is true exactly when the current user id and the current
\* user email are both non-empty; a registerUser or loginUser with an
\* invalid email, or with a weak (registerUser) or empty (loginUser)
\* password, reports failure and leaves the three session fields as they
\* were, any other succeeds; logoutUser clears all three.
SessionFields ==
    auth.op /= "none"
      => /\ isLoggedIn(auth.self)
              <=> (auth.self.currentUserId /= <<>>
                     /\ auth.self.currentUserEmail /= <<>>)
         /\ auth.op \in {"registerUser", "loginUser"}
              => /\ auth.result.success <=> ~Rejected
                 /\ Rejected => auth.self = auth.was
                 /\ ~Rejected => /\ auth.self.currentUserEmail = auth.email
                                 /\ auth.self.currentUserId = auth.result.userId
         /\ auth.op = "logoutUser" => auth.self = AuthManager

\* registerUser with the password "password" has been turned down while
\* another user was logged in
WeakPasswordRejected ==
    /\ auth.op = "registerUser"
    /\ auth.password = <<112, 97, 115, 115, 119, 111, 114, 100>>
    /\ ~auth.result.success
    /\ isLoggedIn(auth.self)
    /\ auth.self.currentUserEmail /= auth.email
(* ======================================================================= *)
(* PasswordEntry: the strength analysis                                    *)
(* ======================================================================= *)

\* how many characters of the password are of the class
CountOf(password, class) ==
    Cardinality({k \in 1..Len(password) : password[k] \in class})

\* the counts the loop of analyzePasswordDetailed ends with: a character is
\* counted as upper, else lower, else digit, else special
upperCount(password) == CountOf(password, 65..90)

lowerCount(password) == CountOf(password, 97..122)

digitCount(password) == CountOf(password, 48..57)

specialCount(password) == CountOf(password, (0..127) \ AlphaNumerics)

\* if (cond) result.score += points
Points(cond, points) == IF cond THEN points ELSE 0

\* the length, variety and distribution scoring
scoreOf(length, upper, lower, digit, special) ==
    Points(length >= 8, 25) + Points(length >= 12, 15) + Points(length >= 16, 10)
      + Points(upper >= 1, 15) + Points(lower >= 1, 15)
      + Points(digit >= 1, 15) + Points(special >= 1, 15)
      + Points(upper >= 2, 5) + Points(lower >= 2, 5)
      + Points(digit >= 2, 5) + Points(special >= 2, 5)

strengthOf(score) ==
    IF score >= 80 THEN "Very Strong"
    ELSE IF score >= 60 THEN "Strong"
    ELSE IF score >= 40 THEN "Moderate"
    ELSE IF score >= 20 THEN "Weak"
    ELSE "Very Weak"

\* analyzePasswordDetailed(password): [score, strength]; the suggestions
\* are left out
analyzePasswordDetailed(password) ==
    IF password = <<>> THEN [score |-> 0, strength |-> "Very Weak"]
    ELSE LET score == scoreOf(Len(password), upperCount(password),
                              lowerCount(password), digitCount(password),
                              specialCount(password))
         IN  [score |-> score, strength |-> strengthOf(score)]

\* result.strength + " (" + std::to_string(result.score) + "/100)", as its
\* three parts
analyzeStrength(password) ==
    LET result == analyzePasswordDetailed(password)
    IN  <<result.strength, to_string(result.score), "/100">>

\* the largest number of characters of one kind in a password
MaxOfKind == 5

\* passwords of "A"s, "a"s, "0"s and "!"s: 0, 1, 2 or MaxOfKind of each
KindCounts == {0, 1, 2, MaxOfKind}

EntryPasswords ==
    {Fill(u, 65) \o Fill(l, 97) \o Fill(d, 48) \o Fill(s, 33) :
        u \in KindCounts, l \in KindCounts, d \in KindCounts, s \in KindCounts}

InitEntry ==
    /\ CipherIdle
    /\ blk = NoBlock
    /\ tam = NoTamper
    /\ BridgeIdle
    /\ strategy = NoStrategy
    /\ keyFiles = NoFiles
    /\ cx = NoContextCall
    /\ xr = NoXor
    /\ cod = NoCodec
    /\ fm = NoField
    /\ dk = NoDerive
    /\ sc = NoStrategyCall
    /\ thr = NoThreads
    /\ auth = NoAuth
    /\ pe \in {[op |-> "password", password |-> p, score |-> 0,
                strength |-> "", text |-> <<>>] : p \in EntryPasswords}

entryRest ==
    <<cipherVars, blk, tam, bridgeVars, strategy, keyFiles, cx, xr, cod,
      fm, dk, sc, thr, auth>>

\* PasswordEntry::analyzePasswordDetailed(password)
AnalyzePasswordDetailed ==
    /\ pe.op = "password"
    /\ \E r \in {analyzePasswordDetailed(pe.password)} :
           pe' = [pe EXCEPT !.op = "analyzePasswordDetailed",
                            !.score = r.score, !.strength = r.strength]
    /\ UNCHANGED entryRest

\* PasswordEntry::analyzeStrength(password)
AnalyzeStrength ==
    /\ pe.op = "password"
    /\ pe' = [pe EXCEPT !.op = "analyzeStrength",
                        !.text = analyzeStrength(pe.password)]
    /\ UNCHANGED entryRest

NextEntry ==
    \/ AnalyzePasswordDetailed
    \/ AnalyzeStrength

SpecEntry == InitEntry /\ [][NextEntry]_vars

\* the number a string of decimal digits stands for
RECURSIVE stoi10(_)
stoi10(digits) ==
    IF digits = <<>> THEN 0
    ELSE 10 * stoi10(SubSeq(digits, 1, Len(digits) - 1))
           + (digits[Len(digits)] - 48)

\* C29: for every password the score analyzePasswordDetailed returns is in
\* 0..100, and analyzeStrength reports that score as "<score>/100".
ScoreOutOfHundred ==
    /\ pe.op = "analyzePasswordDetailed" => pe.score \in 0..100
    /\ pe.op = "analyzeStrength"
         => /\ pe.text[3] = "/100"
            /\ stoi10(pe.text[2]) = analyzePasswordDetailed(pe.password).score
            /\ stoi10(pe.text[2]) \in 0..100

\* the score is never negative, and analyzeStrength reports the score of
\* analyzePasswordDetailed and its strength
ScoreReported ==
    /\ pe.op = "analyzePasswordDetailed" => pe.score \in 0..130
    /\ pe.op = "analyzeStrength"
         => /\ stoi10(pe.text[2]) = analyzePasswordDetailed(pe.password).score
            /\ pe.text[1] = analyzePasswordDetailed(pe.password).strength

\* "AAaa00!!" has the score 105
ScoreAboveHundred ==
    /\ pe.op = "analyzePasswordDetailed"
    /\ pe.password = <<65, 65, 97, 97, 48, 48, 33, 33>>
    /\ pe.score = 105
    /\ pe.strength = "Very Strong"
====
